---- MODULE Spec2Model ----
(***************************************************************************)
(* State model of the data-pilot session stores:                           *)
(*   utils/dashboard_state.py   DashboardStateManager                      *)
(*   utils/data_storage.py      DataStorageManager                         *)
(*   components/drag_drop_editor.py   grid layout editor (save layout)     *)
(* Every st.session_state entry the managers touch is a variable; every    *)
(* static method is one action that performs the whole call.               *)
(*                                                                         *)
(* Conventions                                                             *)
(*   - a Python dict is a TLA+ function; its key set is DOMAIN.            *)
(*   - str(uuid.uuid4()) is a fresh value: ids are drawn from the counter  *)
(*     next_uuid, which is never reused.                                   *)
(*   - datetime.now() reads the variable now; Tick lets time pass between  *)
(*     calls.  A timestamp value carries the Python type that holds it     *)
(*     ("isostr" for .isoformat() text, "datetime" for a datetime object), *)
(*     because json.dumps(default=str) treats the two differently.         *)
(***************************************************************************)
EXTENDS Integers, Sequences, FiniteSets, TLC

VARIABLES
    dashboards,         \* st.session_state.dashboards: name -> dashboard dict
    current_dashboard,  \* st.session_state.current_dashboard: name or NoName
    dashboard_history,  \* st.session_state.dashboard_history: list of entries
    user_preferences,   \* st.session_state.user_preferences
    data_sources,       \* st.session_state.data_sources: name -> table
    data_metadata,      \* st.session_state.data_metadata: name -> metadata dict
    data_cache,         \* st.session_state.data_cache: cache key -> entry
    grid_layout,        \* st.session_state.drag_drop['grid_layout']: name -> layout
    now,                \* the wall clock read by datetime.now()
    next_uuid,          \* number of uuid4 values drawn so far
    result              \* the last call and what it returned

vars == <<dashboards, current_dashboard, dashboard_history, user_preferences,
          data_sources, data_metadata, data_cache, grid_layout, now, next_uuid,
          result>>

dashVars == <<dashboards, current_dashboard, dashboard_history, user_preferences,
              grid_layout>>
dataVars == <<data_sources, data_metadata, data_cache>>

(***************************************************************************)
(* Bounds of the model                                                     *)
(***************************************************************************)
MaxUuid == 6          \* uuid4 values that may be drawn
MaxHistory == 4       \* history entries appended in one explored run
MaxClock == 2         \* last clock reading explored
TicksPerMinute == 1   \* clock readings in one minute of TTL

MaxDays == 1          \* whole days that may pass in one explored run

\* the cap of add_to_history
HistoryCap == 100

\* cleanup_session_state: the age in hours after which an empty dashboard goes,
\* and the number of history entries it keeps
MaxAgeHours == 24
CleanupHistoryKeep == 50

DashNames == {"D1", "D2"}
SrcNames == {"s", "s2"}
Titles == {"t1", "t2"}
NoName == "<None>"

(***************************************************************************)
(* Python dict helpers                                                     *)
(***************************************************************************)
EmptyDict == <<>>

DictPut(d, k, v) == [x \in DOMAIN d \cup {k} |-> IF x = k THEN v ELSE d[x]]

DictDel(d, k) == [x \in DOMAIN d \ {k} |-> d[x]]

\* dict.update(other): every key of other overwrites
DictUpdate(d, other) ==
    [x \in DOMAIN d \cup DOMAIN other |-> IF x \in DOMAIN other THEN other[x] ELSE d[x]]

\* the keys of a dict as a list, in one fixed iteration order
RECURSIVE KeyList(_)
KeyList(S) ==
    IF S = {} THEN <<>>
    ELSE LET k == CHOOSE x \in S : \A y \in S : x <= y
         IN  <<k>> \o KeyList(S \ {k})

RECURSIVE NameList(_)
NameList(S) ==
    IF S = {} THEN <<>>
    ELSE LET k == CHOOSE x \in S : TRUE
         IN  <<k>> \o NameList(S \ {k})

Range(s) == {s[i] : i \in DOMAIN s}

(***************************************************************************)
(* Values                                                                  *)
(***************************************************************************)
\* datetime.now().isoformat()
IsoFormat(t) == [kind |-> "isostr", t |-> t]
\* a datetime object
DateTime(t) == [kind |-> "datetime", t |-> t]
\* a key that is absent / None
NoneValue == [kind |-> "none", t |-> 0]

\* what the caller passes as chart_config
ChartConfigs == [data_source : SrcNames, title : Titles]

\* create_dashboard's 'layout': {'columns': 2, 'spacing': 'medium'}: no chart ids
DefaultLayout == [kind |-> "default", cells |-> EmptyDict]
\* a layout written by the editor: chart id -> grid cell
GridLayout(cells) == [kind |-> "grid", cells |-> cells]
LayoutChartIds(layout) == DOMAIN layout.cells

DefaultPreferences ==
    [k \in {"default_chart_height", "auto_refresh_interval"} |->
        IF k = "default_chart_height" THEN 400 ELSE 30]

NoResult ==
    [op |-> "none", ok |-> TRUE, name |-> NoName, name2 |-> NoName,
     chart |-> 0, names |-> <<>>, count |-> 0, key |-> <<>>, hit |-> FALSE,
     data |-> NoneValue]

Return(op, ok, name) == [NoResult EXCEPT !.op = op, !.ok = ok, !.name = name]

(***************************************************************************)
(* uuid4 and the clock                                                     *)
(***************************************************************************)
\* the n-th value drawn from uuid.uuid4() during this call
Uuid(n) == next_uuid + n

CanDraw(n) == next_uuid + n <= MaxUuid

Tick ==
    /\ now < MaxClock
    /\ now' = now + 1
    /\ UNCHANGED <<dashVars, dataVars, next_uuid, result>>

TicksPerDay == 24 * 60 * TicksPerMinute

\* a day passes between two calls
Sleep ==
    /\ now + TicksPerDay <= MaxClock + MaxDays * TicksPerDay
    /\ now' = now + TicksPerDay
    /\ UNCHANGED <<dashVars, dataVars, next_uuid, result>>

(***************************************************************************)
(* DashboardStateManager                                                   *)
(***************************************************************************)
\* add_to_history: append, then keep the last HistoryCap entries
LastEntries(h, n) == IF Len(h) > n THEN SubSeq(h, Len(h) - n + 1, Len(h)) ELSE h

\* add_to_history keeping the oldest HistoryCap entries instead of the newest
add_to_history_keep_oldest(history, dashboard_name, action) ==
    LET appended == Append(history, [timestamp |-> IsoFormat(now),
                                     dashboard |-> dashboard_name,
                                     action |-> action])
    IN  IF Len(appended) > HistoryCap THEN SubSeq(appended, 1, HistoryCap)
        ELSE appended

add_to_history(history, dashboard_name, action) ==
    LastEntries(
        Append(history, [timestamp |-> IsoFormat(now), dashboard |-> dashboard_name,
                         action |-> action]),
        HistoryCap)

\* the entries appended since the clock of the explored run started
AppendedEntries ==
    {i \in 1..Len(dashboard_history) : dashboard_history[i].timestamp.t >= 0}

HistoryRoom == Cardinality(AppendedEntries) < MaxHistory

NewDashboard(name) ==
    [id |-> Uuid(1), name |-> name, created |-> IsoFormat(now),
     modified |-> IsoFormat(now), charts |-> EmptyDict, layout |-> DefaultLayout,
     filters |-> EmptyDict]

\* create_dashboard without the check of lines 35-36: an existing dashboard of
\* that name is replaced
create_dashboard_overwrite(name) ==
    /\ CanDraw(1)
    /\ HistoryRoom
    /\ dashboards' = DictPut(dashboards, name, NewDashboard(name))
    /\ dashboard_history' = add_to_history(dashboard_history, name, "created")
    /\ next_uuid' = next_uuid + 1
    /\ result' = Return("create_dashboard", TRUE, name)
    /\ UNCHANGED <<current_dashboard, user_preferences, grid_layout, dataVars, now>>

create_dashboard(name) ==
    IF name \in DOMAIN dashboards
    THEN /\ result' = Return("create_dashboard", FALSE, name)
         /\ UNCHANGED <<dashVars, dataVars, now, next_uuid>>
    ELSE /\ CanDraw(1)
         /\ HistoryRoom
         /\ dashboards' = DictPut(dashboards, name, NewDashboard(name))
         /\ dashboard_history' = add_to_history(dashboard_history, name, "created")
         /\ next_uuid' = next_uuid + 1
         /\ result' = Return("create_dashboard", TRUE, name)
         /\ UNCHANGED <<current_dashboard, user_preferences, grid_layout,
                        dataVars, now>>

\* delete_dashboard clearing the current dashboard whatever it names
delete_dashboard_clear_always(name) ==
    IF name \notin DOMAIN dashboards
    THEN /\ result' = Return("delete_dashboard", FALSE, name)
         /\ UNCHANGED <<dashVars, dataVars, now, next_uuid>>
    ELSE /\ HistoryRoom
         /\ dashboards' = DictDel(dashboards, name)
         /\ current_dashboard' = NoName
         /\ dashboard_history' = add_to_history(dashboard_history, name, "deleted")
         /\ result' = Return("delete_dashboard", TRUE, name)
         /\ UNCHANGED <<user_preferences, grid_layout, dataVars, now, next_uuid>>

delete_dashboard(name) ==
    IF name \notin DOMAIN dashboards
    THEN /\ result' = Return("delete_dashboard", FALSE, name)
         /\ UNCHANGED <<dashVars, dataVars, now, next_uuid>>
    ELSE /\ HistoryRoom
         /\ dashboards' = DictDel(dashboards, name)
         /\ current_dashboard' =
                IF current_dashboard = name THEN NoName ELSE current_dashboard
         /\ dashboard_history' = add_to_history(dashboard_history, name, "deleted")
         /\ result' = Return("delete_dashboard", TRUE, name)
         /\ UNCHANGED <<user_preferences, grid_layout, dataVars, now,
                        next_uuid>>

\* app.py, the "Edit" button of a dashboard card:
\* st.session_state.current_dashboard = name
select_dashboard(name) ==
    /\ name \in DOMAIN dashboards
    /\ current_dashboard' = name
    /\ result' = Return("select_dashboard", TRUE, name)
    /\ UNCHANGED <<dashboards, dashboard_history, user_preferences, grid_layout,
                   dataVars, now, next_uuid>>

\* add_chart_to_dashboard keeping the datetime object instead of its isoformat
StoredChart_datetime(chart_config, chart_id) ==
    [id |-> chart_id, created |-> DateTime(now), modified |-> NoneValue,
     data_source |-> chart_config.data_source, title |-> chart_config.title]

\* the dict stored under the new chart id
StoredChart(chart_config, chart_id) ==
    [id |-> chart_id, created |-> IsoFormat(now), modified |-> NoneValue,
     data_source |-> chart_config.data_source, title |-> chart_config.title]

add_chart_to_dashboard(dashboard_name, chart_config) ==
    IF dashboard_name \notin DOMAIN dashboards
    THEN /\ result' = Return("add_chart_to_dashboard", FALSE, dashboard_name)
         /\ UNCHANGED <<dashVars, dataVars, now, next_uuid>>
    ELSE /\ CanDraw(1)
         /\ HistoryRoom
         /\ dashboards' =
                [dashboards EXCEPT
                    ![dashboard_name].charts =
                        DictPut(@, Uuid(1), StoredChart(chart_config, Uuid(1))),
                    ![dashboard_name].modified = IsoFormat(now)]
         /\ dashboard_history' =
                add_to_history(dashboard_history, dashboard_name, "chart_added")
         /\ next_uuid' = next_uuid + 1
         /\ result' = [Return("add_chart_to_dashboard", TRUE, dashboard_name)
                          EXCEPT !.chart = Uuid(1)]
         /\ UNCHANGED <<current_dashboard, user_preferences, grid_layout,
                        dataVars, now>>

\* The caller still holds the dict it passed to the call before this one, and
\* that dict is the object stored in the chart map (line 89 and line 127 store
\* the argument itself, not a copy).
CallerConfigStored ==
    /\ result.op \in {"add_chart_to_dashboard", "update_chart_config"}
    /\ result.ok
    /\ result.name \in DOMAIN dashboards
    /\ result.chart \in DOMAIN dashboards[result.name].charts

\* add_chart_to_dashboard(dashboard_name, chart_config) where chart_config is
\* the dict passed to the call before: lines 86-87 write the new id and
\* timestamp into that object, which both chart-map entries then are.
add_chart_to_dashboard_same_config(dashboard_name) ==
    /\ CallerConfigStored
    /\ IF dashboard_name \notin DOMAIN dashboards
       THEN /\ result' = Return("add_chart_to_dashboard_same_config", FALSE,
                                dashboard_name)
            /\ UNCHANGED <<dashVars, dataVars, now, next_uuid>>
       ELSE /\ CanDraw(1)
            /\ HistoryRoom
            /\ LET chart_config ==
                       [dashboards[result.name].charts[result.chart] EXCEPT
                           !.id = Uuid(1), !.created = IsoFormat(now)]
               IN  dashboards' =
                       [dashboards EXCEPT
                           ![result.name].charts[result.chart] = chart_config,
                           ![dashboard_name].charts = DictPut(@, Uuid(1), chart_config),
                           ![dashboard_name].modified = IsoFormat(now)]
            /\ dashboard_history' =
                   add_to_history(dashboard_history, dashboard_name, "chart_added")
            /\ next_uuid' = next_uuid + 1
            /\ result' = [Return("add_chart_to_dashboard_same_config", TRUE,
                                 dashboard_name)
                             EXCEPT !.chart = Uuid(1)]
            /\ UNCHANGED <<current_dashboard, user_preferences, grid_layout,
                           dataVars, now>>

\* a removal that logs 'chart_removed' also when it finds no chart to remove
remove_chart_from_dashboard_log_failure(dashboard_name, chart_id) ==
    IF dashboard_name \notin DOMAIN dashboards
    THEN /\ result' = [Return("remove_chart_from_dashboard", FALSE, dashboard_name)
                          EXCEPT !.chart = chart_id]
         /\ UNCHANGED <<dashVars, dataVars, now, next_uuid>>
    ELSE /\ HistoryRoom
         /\ dashboards' =
                IF chart_id \in DOMAIN dashboards[dashboard_name].charts
                THEN [dashboards EXCEPT
                         ![dashboard_name].charts = DictDel(@, chart_id),
                         ![dashboard_name].modified = IsoFormat(now)]
                ELSE dashboards
         /\ dashboard_history' =
                add_to_history(dashboard_history, dashboard_name, "chart_removed")
         /\ result' = [Return("remove_chart_from_dashboard",
                              chart_id \in DOMAIN dashboards[dashboard_name].charts,
                              dashboard_name)
                          EXCEPT !.chart = chart_id]
         /\ UNCHANGED <<current_dashboard, user_preferences, grid_layout,
                        dataVars, now, next_uuid>>

remove_chart_from_dashboard(dashboard_name, chart_id) ==
    IF dashboard_name \notin DOMAIN dashboards
    THEN /\ result' = [Return("remove_chart_from_dashboard", FALSE, dashboard_name)
                          EXCEPT !.chart = chart_id]
         /\ UNCHANGED <<dashVars, dataVars, now, next_uuid>>
    ELSE IF chart_id \notin DOMAIN dashboards[dashboard_name].charts
    THEN /\ result' = [Return("remove_chart_from_dashboard", FALSE, dashboard_name)
                          EXCEPT !.chart = chart_id]
         /\ UNCHANGED <<dashVars, dataVars, now, next_uuid>>
    ELSE /\ HistoryRoom
         /\ dashboards' =
                [dashboards EXCEPT
                    ![dashboard_name].charts = DictDel(@, chart_id),
                    ![dashboard_name].modified = IsoFormat(now)]
         /\ dashboard_history' =
                add_to_history(dashboard_history, dashboard_name, "chart_removed")
         /\ result' = [Return("remove_chart_from_dashboard", TRUE, dashboard_name)
                          EXCEPT !.chart = chart_id]
         /\ UNCHANGED <<current_dashboard, user_preferences, grid_layout,
                        dataVars, now, next_uuid>>

\* new_config after id, created and modified are written into it
UpdatedChart(original_config, new_config, chart_id) ==
    [id |-> chart_id, created |-> original_config.created,
     modified |-> IsoFormat(now), data_source |-> new_config.data_source,
     title |-> new_config.title]

update_chart_config(dashboard_name, chart_id, new_config) ==
    IF dashboard_name \notin DOMAIN dashboards
    THEN /\ result' = [Return("update_chart_config", FALSE, dashboard_name)
                          EXCEPT !.chart = chart_id]
         /\ UNCHANGED <<dashVars, dataVars, now, next_uuid>>
    ELSE IF chart_id \notin DOMAIN dashboards[dashboard_name].charts
    THEN /\ result' = [Return("update_chart_config", FALSE, dashboard_name)
                          EXCEPT !.chart = chart_id]
         /\ UNCHANGED <<dashVars, dataVars, now, next_uuid>>
    ELSE /\ dashboards' =
                [dashboards EXCEPT
                    ![dashboard_name].charts[chart_id] =
                        UpdatedChart(@, new_config, chart_id),
                    ![dashboard_name].modified = IsoFormat(now)]
         /\ result' = [Return("update_chart_config", TRUE, dashboard_name)
                          EXCEPT !.chart = chart_id]
         /\ UNCHANGED <<current_dashboard, dashboard_history, user_preferences,
                        grid_layout, dataVars, now, next_uuid>>

\* update_chart_config(dashboard_name, chart_id, new_config) where new_config
\* is the dict passed to the call before: lines 123-125 write into that object,
\* which both chart-map entries then are.
update_chart_config_same_config(dashboard_name, chart_id) ==
    /\ CallerConfigStored
    /\ IF \/ dashboard_name \notin DOMAIN dashboards
          \/ chart_id \notin DOMAIN dashboards[dashboard_name].charts
       THEN /\ result' = [Return("update_chart_config_same_config", FALSE,
                                 dashboard_name)
                             EXCEPT !.chart = chart_id]
            /\ UNCHANGED <<dashVars, dataVars, now, next_uuid>>
       ELSE /\ LET original_config == dashboards[dashboard_name].charts[chart_id]
                   new_config ==
                       [dashboards[result.name].charts[result.chart] EXCEPT
                           !.id = chart_id,
                           !.created = original_config.created,
                           !.modified = IsoFormat(now)]
               IN  dashboards' =
                       [dashboards EXCEPT
                           ![result.name].charts[result.chart] = new_config,
                           ![dashboard_name].charts[chart_id] = new_config,
                           ![dashboard_name].modified = IsoFormat(now)]
            /\ result' = [Return("update_chart_config_same_config", TRUE,
                                 dashboard_name)
                             EXCEPT !.chart = chart_id]
            /\ UNCHANGED <<current_dashboard, dashboard_history, user_preferences,
                           grid_layout, dataVars, now, next_uuid>>

\* datetime.fromisoformat(dashboard.get('created', current_time.isoformat()))
CreatedTime(dashboard, current_time) ==
    IF dashboard.created = NoneValue THEN current_time ELSE dashboard.created.t

\* cleanup removing every old dashboard, with or without charts
Expired_ignoring_charts(dashboard, current_time) ==
    (current_time - CreatedTime(dashboard, current_time))
        > MaxAgeHours * 60 * TicksPerMinute

\* not dashboard.get('charts') and hours_old > 24
Expired(dashboard, current_time) ==
    /\ DOMAIN dashboard.charts = {}
    /\ (current_time - CreatedTime(dashboard, current_time))
           > MaxAgeHours * 60 * TicksPerMinute

cleanup_session_state ==
    LET dashboards_to_remove ==
            {name \in DOMAIN dashboards : Expired(dashboards[name], now)}
    IN  /\ dashboards' =
               [name \in DOMAIN dashboards \ dashboards_to_remove |-> dashboards[name]]
        /\ dashboard_history' = LastEntries(dashboard_history, CleanupHistoryKeep)
        /\ result' = [Return("cleanup_session_state", TRUE, NoName)
                         EXCEPT !.count = Cardinality(dashboards_to_remove)]
        /\ UNCHANGED <<current_dashboard, user_preferences, grid_layout, dataVars,
                       now, next_uuid>>

(***************************************************************************)
(* json.dumps(x, default=str) followed by json.loads                       *)
(***************************************************************************)
\* a leaf value: text and None come back as they went in; any object json
\* cannot encode goes through str() and comes back as that text
JsonValue(v) == IF v.kind = "datetime" THEN [kind |-> "str", t |-> v.t] ELSE v

JsonChart(chart) ==
    [chart EXCEPT !.created = JsonValue(@), !.modified = JsonValue(@)]

JsonDashboard(dashboard) ==
    [dashboard EXCEPT
        !.created = JsonValue(@),
        !.modified = JsonValue(@),
        !.charts = [c \in DOMAIN @ |-> JsonChart(@[c])]]

JsonDashboards(ds) == [n \in DOMAIN ds |-> JsonDashboard(ds[n])]

\* position of chart_id in the iteration over the charts dict
Position(keys, chart_id) == CHOOSE i \in 1..Len(keys) : keys[i] = chart_id

\* duplicate_dashboard filling new_charts under the old chart ids
NewCharts_old_ids(charts) ==
    [chart_id \in DOMAIN charts |-> [charts[chart_id] EXCEPT !.created = IsoFormat(now)]]

\* the charts of the copy: the i-th chart gets the i-th fresh uuid after the
\* dashboard's own
NewCharts(charts) ==
    LET keys == KeyList(DOMAIN charts)
        newId(i) == Uuid(1 + i)
    IN  [new_chart_id \in {newId(i) : i \in 1..Len(keys)} |->
            LET i == CHOOSE j \in 1..Len(keys) : newId(j) = new_chart_id
            IN  [charts[keys[i]] EXCEPT !.id = new_chart_id,
                                        !.created = IsoFormat(now)]]

Duplicated(original, new_name) ==
    LET copy == JsonDashboard(original)
    IN  [copy EXCEPT !.id = Uuid(1), !.name = new_name,
                     !.created = IsoFormat(now), !.modified = IsoFormat(now),
                     !.charts = NewCharts(copy.charts)]

duplicate_dashboard(original_name, new_name) ==
    IF original_name \notin DOMAIN dashboards \/ new_name \in DOMAIN dashboards
    THEN /\ result' = [Return("duplicate_dashboard", FALSE, original_name)
                          EXCEPT !.name2 = new_name]
         /\ UNCHANGED <<dashVars, dataVars, now, next_uuid>>
    ELSE /\ CanDraw(1 + Cardinality(DOMAIN dashboards[original_name].charts))
         /\ HistoryRoom
         /\ dashboards' =
                DictPut(dashboards, new_name,
                        Duplicated(dashboards[original_name], new_name))
         /\ dashboard_history' =
                add_to_history(dashboard_history, new_name, "duplicated")
         /\ next_uuid' =
                next_uuid + 1 + Cardinality(DOMAIN dashboards[original_name].charts)
         /\ result' = [Return("duplicate_dashboard", TRUE, original_name)
                          EXCEPT !.name2 = new_name]
         /\ UNCHANGED <<current_dashboard, user_preferences, grid_layout,
                        dataVars, now>>

(***************************************************************************)
(* Layout editor (components/drag_drop_editor.py)                          *)
(***************************************************************************)
\* the "Grid Columns" slider at its default
GridCols == 6

\* the editor draws its buttons only for a dashboard that has charts
EditorShown(dashboard_name) ==
    /\ dashboard_name \in DOMAIN dashboards
    /\ DOMAIN dashboards[dashboard_name].charts # {}

\* drag_drop['grid_layout'][dashboard_name], created empty on first render
EditorGrid(dashboard_name) ==
    IF dashboard_name \in DOMAIN grid_layout THEN grid_layout[dashboard_name]
    ELSE EmptyDict

\* "Auto Arrange": every chart of the dashboard, row by row
auto_arrange(dashboard_name) ==
    /\ EditorShown(dashboard_name)
    /\ LET keys == KeyList(DOMAIN dashboards[dashboard_name].charts)
           cells == [c \in Range(keys) |->
                        [row |-> (Position(keys, c) - 1) \div GridCols,
                         col |-> (Position(keys, c) - 1) % GridCols]]
       IN  grid_layout' = DictPut(grid_layout, dashboard_name, cells)
    /\ result' = Return("auto_arrange", TRUE, dashboard_name)
    /\ UNCHANGED <<dashboards, current_dashboard, dashboard_history,
                   user_preferences, dataVars, now, next_uuid>>

\* "Save Layout": dashboards[name]['layout'] = grid_layout.copy()
save_layout(dashboard_name) ==
    /\ EditorShown(dashboard_name)
    /\ grid_layout' = DictPut(grid_layout, dashboard_name, EditorGrid(dashboard_name))
    /\ dashboards' =
           [dashboards EXCEPT
               ![dashboard_name].layout = GridLayout(EditorGrid(dashboard_name))]
    /\ result' = Return("save_layout", TRUE, dashboard_name)
    /\ UNCHANGED <<current_dashboard, dashboard_history, user_preferences,
                   dataVars, now, next_uuid>>

(***************************************************************************)
(* export_dashboard_state / import_dashboard_state                         *)
(***************************************************************************)
\* A JSON text, by what json.loads and the import code can see of it.
JsonText(valid, has_ds, ds_is_dict, ds_items, has_prefs, prefs_is_dict, prefs_items) ==
    [valid_json |-> valid,
     has_dashboards |-> has_ds,
     dashboards_is_dict |-> ds_is_dict,
     dashboards |-> ds_items,
     has_preferences |-> has_prefs,
     preferences_is_dict |-> prefs_is_dict,
     user_preferences |-> prefs_items]

\* json.dumps(state_data, indent=2, default=str); the text parses back to the
\* json copy of the store
export_dashboard_state ==
    JsonText(TRUE, TRUE, TRUE, JsonDashboards(dashboards), TRUE, TRUE, user_preferences)

\* a dashboard exported by another session: its uuids are not this session's
OtherDashboards ==
    [n \in {"D1"} |->
        [id |-> -1, name |-> "D1", created |-> IsoFormat(0), modified |-> IsoFormat(0),
         charts |-> [c \in {-2} |->
                        [id |-> -2, created |-> IsoFormat(0), modified |-> NoneValue,
                         data_source |-> "s", title |-> "t1"]],
         layout |-> DefaultLayout, filters |-> EmptyDict]]

OtherPreferences == [k \in {"default_chart_height"} |-> 300]

FileNames ==
    {"export", "invalid.json", "nodashboards.json", "dashlist.json", "other.json",
     "badprefs.json"}

\* the text handed to import_dashboard_state
FileText(file) ==
    CASE file = "export" -> export_dashboard_state
      [] file = "invalid.json" ->
            JsonText(FALSE, FALSE, FALSE, EmptyDict, FALSE, FALSE, EmptyDict)
      [] file = "nodashboards.json" ->
            JsonText(TRUE, FALSE, FALSE, EmptyDict, TRUE, TRUE, OtherPreferences)
      [] file = "dashlist.json" ->
            JsonText(TRUE, TRUE, FALSE, EmptyDict, TRUE, TRUE, OtherPreferences)
      [] file = "other.json" ->
            JsonText(TRUE, TRUE, TRUE, OtherDashboards, TRUE, TRUE, OtherPreferences)
      [] file = "badprefs.json" ->
            JsonText(TRUE, TRUE, TRUE, OtherDashboards, TRUE, FALSE, EmptyDict)

\* an import that keeps the existing dashboard of a colliding name
ImportDashboards_keep_existing(store, items) == DictUpdate(items, store)

\* for name, dashboard_data in state_data['dashboards'].items(): assign
ImportDashboards(store, items) == DictUpdate(store, items)

import_dashboard_state(file) ==
    LET state_data == FileText(file)
        failed == [Return("import_dashboard_state", FALSE, file) EXCEPT !.count = 0]
    IN  IF ~state_data.valid_json
        THEN \* json.JSONDecodeError
             /\ result' = failed
             /\ UNCHANGED <<dashVars, dataVars, now, next_uuid>>
        ELSE IF ~state_data.has_dashboards
        THEN /\ result' = failed
             /\ UNCHANGED <<dashVars, dataVars, now, next_uuid>>
        ELSE IF ~state_data.dashboards_is_dict
        THEN \* .items() raises before the first assignment
             /\ result' = failed
             /\ UNCHANGED <<dashVars, dataVars, now, next_uuid>>
        ELSE /\ dashboards' = ImportDashboards(dashboards, state_data.dashboards)
             /\ IF ~state_data.has_preferences
                THEN /\ UNCHANGED user_preferences
                     /\ result' = [Return("import_dashboard_state", TRUE, file) EXCEPT
                                      !.count = Cardinality(DOMAIN state_data.dashboards)]
                ELSE IF state_data.preferences_is_dict
                THEN /\ user_preferences' =
                            DictUpdate(user_preferences, state_data.user_preferences)
                     /\ result' = [Return("import_dashboard_state", TRUE, file) EXCEPT
                                      !.count = Cardinality(DOMAIN state_data.dashboards)]
                ELSE \* dict.update raises after the dashboards were assigned
                     /\ UNCHANGED user_preferences
                     /\ result' = failed
             /\ UNCHANGED <<current_dashboard, dashboard_history, grid_layout,
                            dataVars, now, next_uuid>>

(***************************************************************************)
(* DataStorageManager                                                      *)
(***************************************************************************)
\* A DataFrame: its row count, the dtype of each column, the content of its
\* first five rows (what head() shows) and the content of the rows after them.
DataFrame(rows, dtypes, head, rest) ==
    [rows |-> rows, dtypes |-> dtypes, head |-> head, rest |-> rest]

Ints1 == DataFrame(2, <<"int64">>, 1, 0)
Ints2 == DataFrame(2, <<"int64">>, 2, 0)
\* a column the cleaner's optimize step turned into a categorical
Categories == DataFrame(2, <<"category">>, 1, 0)

DataFrames == {Ints1, Ints2, Categories}

\* md5 of f"{shape}_{dtypes.to_string()}_{head().to_string()}": the digest stands
\* for the text it is computed from
generate_data_hash(dataframe) ==
    [shape |-> <<dataframe.rows, Len(dataframe.dtypes)>>,
     dtypes |-> dataframe.dtypes,
     head |-> dataframe.head]

\* the metadata block add_data_source stores
NewMetadata(name, dataframe, metadata) ==
    [name |-> name,
     hash |-> generate_data_hash(dataframe),
     created |-> IsoFormat(now),
     modified |-> IsoFormat(now),
     rows |-> dataframe.rows,
     columns |-> Len(dataframe.dtypes),
     column_types |-> dataframe.dtypes,
     custom_metadata |-> metadata]

\* existing_metadata.update({...}) of update_data_source
MergedMetadata(existing_metadata, dataframe) ==
    [existing_metadata EXCEPT
        !.hash = generate_data_hash(dataframe),
        !.modified = IsoFormat(now),
        !.rows = dataframe.rows,
        !.columns = Len(dataframe.dtypes),
        !.column_types = dataframe.dtypes]

\* The characters of the strings that are searched or searched for.
Chars(string) ==
    CASE string = "s" -> <<"s">>
      [] string = "s2" -> <<"s", "2">>

\* the cache key under which a transform of data source name is stored
CacheKey(name) == Chars(name) \o <<"_", "b", "a", "r">>

CacheKeys == {CacheKey(name) : name \in SrcNames}

\* Python's  sub in text  on strings
Contains(text, sub) ==
    \E i \in 1..(Len(text) - Len(sub) + 1) : SubSeq(text, i, i + Len(sub) - 1) = sub

\* the dashboards whose charts name the data source, one entry per dashboard
DashboardDepends(dashboard_data, data_source_name) ==
    \E c \in DOMAIN dashboard_data.charts :
        dashboard_data.charts[c].data_source = data_source_name

\* the charts of a dashboard that name the data source
DependentCharts(dashboard_data, data_source_name) ==
    {c \in DOMAIN dashboard_data.charts :
        dashboard_data.charts[c].data_source = data_source_name}

RECURSIVE Repeat(_, _)
Repeat(x, n) == IF n = 0 THEN <<>> ELSE <<x>> \o Repeat(x, n - 1)

RECURSIVE Flatten(_)
Flatten(lists) == IF lists = <<>> THEN <<>> ELSE Head(lists) \o Flatten(Tail(lists))

\* check_data_dependencies with the break left out: a dashboard is appended
\* once for every chart that names the data source
check_data_dependencies_no_break(data_source_name) ==
    LET names == NameList(DOMAIN dashboards)
    IN  Flatten([i \in 1..Len(names) |->
                    Repeat(names[i],
                           Cardinality(DependentCharts(dashboards[names[i]],
                                                       data_source_name)))])

check_data_dependencies(data_source_name) ==
    SelectSeq(NameList(DOMAIN dashboards),
              LAMBDA d : DashboardDepends(dashboards[d], data_source_name))

clear_cache_for_data_source(cache, data_source_name) ==
    [k \in {key \in DOMAIN cache : ~Contains(key, Chars(data_source_name))} |-> cache[k]]

\* a cleanup that removes nothing
cleanup_cache_keep_all(cache, current_time) == cache

\* the entries cleanup_cache keeps when it reads the clock at current_time
cleanup_cache(cache, current_time) ==
    [k \in {key \in DOMAIN cache : ~(current_time > cache[key].expiry)} |-> cache[k]]

add_data_source(name, dataframe, metadata) ==
    /\ data_sources' = DictPut(data_sources, name, dataframe)
    /\ data_metadata' = DictPut(data_metadata, name, NewMetadata(name, dataframe, metadata))
    /\ result' = Return("add_data_source", TRUE, name)
    /\ UNCHANGED <<data_cache, dashVars, now, next_uuid>>

remove_data_source(name) ==
    IF name \notin DOMAIN data_sources
    THEN /\ result' = Return("remove_data_source", FALSE, name)
         /\ UNCHANGED <<dashVars, dataVars, now, next_uuid>>
    ELSE IF check_data_dependencies(name) # <<>>
    THEN /\ result' = [Return("remove_data_source", FALSE, name)
                          EXCEPT !.names = check_data_dependencies(name)]
         /\ UNCHANGED <<dashVars, dataVars, now, next_uuid>>
    ELSE /\ data_sources' = DictDel(data_sources, name)
         /\ data_metadata' = DictDel(data_metadata, name)
         /\ data_cache' = clear_cache_for_data_source(data_cache, name)
         /\ result' = Return("remove_data_source", TRUE, name)
         /\ UNCHANGED <<dashVars, now, next_uuid>>

update_data_source(name, dataframe, preserve_metadata) ==
    IF name \notin DOMAIN data_sources
    THEN /\ result' = Return("update_data_source", FALSE, name)
         /\ UNCHANGED <<dashVars, dataVars, now, next_uuid>>
    ELSE /\ data_sources' = DictPut(data_sources, name, dataframe)
         /\ data_metadata' =
                IF preserve_metadata
                THEN [data_metadata EXCEPT ![name] = MergedMetadata(@, dataframe)]
                ELSE \* add_data_source(name, dataframe)
                     DictPut(data_metadata, name, NewMetadata(name, dataframe, EmptyDict))
         /\ data_cache' = clear_cache_for_data_source(data_cache, name)
         /\ result' = Return("update_data_source", TRUE, name)
         /\ UNCHANGED <<dashVars, now, next_uuid>>

\* (current_hash == stored_hash) of check_data_integrity
check_data_integrity(name) ==
    /\ name \in DOMAIN data_sources
    /\ name \in DOMAIN data_metadata
    /\ generate_data_hash(data_sources[name]) = data_metadata[name].hash

\* expiry_time = datetime.now() + timedelta(minutes=expiry_minutes)
ExpiryTime(read_time, expiry_minutes) == read_time + expiry_minutes * TicksPerMinute

\* The clock is read for the expiry, again for 'created' and again by
\* cleanup_cache; the last reading may be later than the first.
cache_processed_data(cache_key, data, expiry_minutes, current_time) ==
    /\ current_time \in {now, now + 1}
    /\ current_time <= MaxClock
    /\ data_cache' =
           cleanup_cache(
               DictPut(data_cache, cache_key,
                       [data |-> data,
                        expiry |-> ExpiryTime(now, expiry_minutes),
                        created |-> now]),
               current_time)
    /\ now' = current_time
    /\ result' = [Return("cache_processed_data", TRUE, NoName)
                     EXCEPT !.key = cache_key, !.count = expiry_minutes]
    /\ UNCHANGED <<data_sources, data_metadata, dashVars, next_uuid>>

get_cached_data(cache_key) ==
    IF cache_key \notin DOMAIN data_cache
    THEN /\ result' = [Return("get_cached_data", TRUE, NoName)
                          EXCEPT !.key = cache_key, !.hit = FALSE]
         /\ UNCHANGED <<dashVars, dataVars, now, next_uuid>>
    ELSE IF now > data_cache[cache_key].expiry
    THEN /\ data_cache' = DictDel(data_cache, cache_key)
         /\ result' = [Return("get_cached_data", TRUE, NoName)
                          EXCEPT !.key = cache_key, !.hit = FALSE]
         /\ UNCHANGED <<data_sources, data_metadata, dashVars, now, next_uuid>>
    ELSE /\ result' = [Return("get_cached_data", TRUE, NoName)
                          EXCEPT !.key = cache_key, !.hit = TRUE,
                                 !.data = data_cache[cache_key].data]
         /\ UNCHANGED <<dashVars, dataVars, now, next_uuid>>

(***************************************************************************)
(* export_data_sources / import_data_sources                               *)
(***************************************************************************)
\* df.to_dict('records') with the column list and the dtype strings
ExportedSource(dataframe) ==
    [data |-> [rows |-> dataframe.rows, head |-> dataframe.head, rest |-> dataframe.rest],
     columns |-> Len(dataframe.dtypes),
     dtypes |-> dataframe.dtypes]

\* the dtype of a column rebuilt from its JSON values, after the restore loop:
\* numbers come back as int64, a datetime column is restored by to_datetime,
\* the text of a categorical column stays an object column
RestoredDtype(dtype) == IF dtype = "category" THEN "object" ELSE dtype

\* pd.DataFrame(source_data['data']) and the dtype restore loop; an empty
\* record list gives a frame with no columns
RebuiltDataFrame(source_data) ==
    IF source_data.data.rows = 0
    THEN DataFrame(0, <<>>, 0, 0)
    ELSE DataFrame(source_data.data.rows,
                   [i \in DOMAIN source_data.dtypes |-> RestoredDtype(source_data.dtypes[i])],
                   source_data.data.head, source_data.data.rest)

SourcesText(valid_json, has_data_sources, source_items, metadata_items) ==
    [valid_json |-> valid_json,
     has_data_sources |-> has_data_sources,
     data_sources |-> source_items,
     metadata |-> metadata_items]

export_data_sources ==
    SourcesText(TRUE, TRUE,
                [n \in DOMAIN data_sources |-> ExportedSource(data_sources[n])],
                data_metadata)

\* the export of another session that holds Ints2 under "s"
OtherSources ==
    SourcesText(TRUE, TRUE,
                [n \in {"s"} |-> ExportedSource(Ints2)],
                [n \in {"s"} |->
                    [name |-> "s", hash |-> generate_data_hash(Ints2),
                     created |-> IsoFormat(0), modified |-> IsoFormat(0),
                     rows |-> Ints2.rows, columns |-> Len(Ints2.dtypes),
                     column_types |-> Ints2.dtypes, custom_metadata |-> EmptyDict]])

SourceFileNames == {"export", "invalid.json", "nosources.json", "other.json"}

SourceFileText(file) ==
    CASE file = "export" -> export_data_sources
      [] file = "invalid.json" -> SourcesText(FALSE, FALSE, EmptyDict, EmptyDict)
      [] file = "nosources.json" -> SourcesText(TRUE, FALSE, EmptyDict, EmptyDict)
      [] file = "other.json" -> OtherSources

\* the metadata after the "Import metadata" loop
ImportedMetadata(stored, metadata_items) ==
    [n \in DOMAIN stored |->
        IF n \in DOMAIN metadata_items
        THEN DictUpdate(stored[n], metadata_items[n])
        ELSE stored[n]]

import_data_sources(file) ==
    LET import_data == SourceFileText(file)
        rebuilt == [n \in DOMAIN import_data.data_sources |->
                       RebuiltDataFrame(import_data.data_sources[n])]
        added == [n \in DOMAIN rebuilt |-> NewMetadata(n, rebuilt[n], EmptyDict)]
    IN  IF ~import_data.valid_json \/ ~import_data.has_data_sources
        THEN /\ result' = Return("import_data_sources", FALSE, file)
             /\ UNCHANGED <<dashVars, dataVars, now, next_uuid>>
        ELSE /\ data_sources' = DictUpdate(data_sources, rebuilt)
             /\ data_metadata' =
                    ImportedMetadata(DictUpdate(data_metadata, added), import_data.metadata)
             /\ result' = [Return("import_data_sources", TRUE, file)
                              EXCEPT !.count = Cardinality(DOMAIN rebuilt)]
             /\ UNCHANGED <<data_cache, dashVars, now, next_uuid>>

Init ==
    /\ dashboards = EmptyDict
    /\ current_dashboard = NoName
    /\ dashboard_history = <<>>
    /\ user_preferences = DefaultPreferences
    /\ data_sources = EmptyDict
    /\ data_metadata = EmptyDict
    /\ data_cache = EmptyDict
    /\ grid_layout = EmptyDict
    /\ now = 0
    /\ next_uuid = 0
    /\ result = NoResult

\* the history of a session in which D1 was created and deleted again, n / 2
\* times, before the clock of the explored run started
EarlierHistory(n) ==
    [i \in 1..n |->
        [timestamp |-> IsoFormat(i - n - 1), dashboard |-> "D1",
         action |-> IF i % 2 = 1 THEN "created" ELSE "deleted"]]

\* lengths of the earlier history: none, just under what cleanup keeps, just
\* under the cap
EarlierLengths == {0, CleanupHistoryKeep - 2, HistoryCap - 2}

\* a session that holds no dashboard and has such a history
InitHistory ==
    /\ dashboards = EmptyDict
    /\ current_dashboard = NoName
    /\ dashboard_history \in {EarlierHistory(n) : n \in EarlierLengths}
    /\ user_preferences = DefaultPreferences
    /\ data_sources = EmptyDict
    /\ data_metadata = EmptyDict
    /\ data_cache = EmptyDict
    /\ grid_layout = EmptyDict
    /\ now = 0
    /\ next_uuid = 0
    /\ result = NoResult

\* chart ids a caller can name: those of the dashboard's charts, and one that
\* was never issued
ChartIdInputs(dashboard_name) ==
    {0} \cup (IF dashboard_name \in DOMAIN dashboards
              THEN DOMAIN dashboards[dashboard_name].charts ELSE {})

\* chart configs of one data source
DashConfigs == {cfg \in ChartConfigs : cfg.data_source = "s"}
\* one chart config
OneConfig == {cfg \in DashConfigs : cfg.title = "t1"}

\* Dashboards, their charts and the layout editor
NextLayout ==
    \/ \E name \in DashNames : create_dashboard(name)
    \/ \E name \in DashNames, cfg \in OneConfig : add_chart_to_dashboard(name, cfg)
    \/ \E name \in DashNames : \E c \in ChartIdInputs(name) :
            remove_chart_from_dashboard(name, c)
    \/ \E a \in DashNames, b \in DashNames : duplicate_dashboard(a, b)
    \/ \E name \in DashNames : auto_arrange(name)
    \/ \E name \in DashNames : save_layout(name)

SpecLayout == Init /\ [][NextLayout]_vars

\* Dashboards, their charts and duplication
NextDash ==
    \/ \E name \in DashNames : create_dashboard(name)
    \/ \E name \in DashNames : delete_dashboard(name)
    \/ \E name \in DashNames, cfg \in DashConfigs : add_chart_to_dashboard(name, cfg)
    \/ \E name \in DashNames : \E c \in ChartIdInputs(name) :
            remove_chart_from_dashboard(name, c)
    \/ \E name \in DashNames, cfg \in DashConfigs : \E c \in ChartIdInputs(name) :
            update_chart_config(name, c, cfg)
    \/ \E a \in DashNames, b \in DashNames : duplicate_dashboard(a, b)

SpecDash == Init /\ [][NextDash]_vars

\* The six dashboard operations, with a dashboard selected as the current one
NextCalls ==
    \/ \E name \in DashNames : create_dashboard(name)
    \/ \E name \in DashNames : select_dashboard(name)
    \/ \E name \in DashNames : delete_dashboard(name)
    \/ \E name \in DashNames, cfg \in OneConfig : add_chart_to_dashboard(name, cfg)
    \/ \E name \in DashNames : \E c \in ChartIdInputs(name) :
            remove_chart_from_dashboard(name, c)
    \/ \E name \in DashNames, cfg \in OneConfig : \E c \in ChartIdInputs(name) :
            update_chart_config(name, c, cfg)
    \/ \E a \in DashNames, b \in DashNames : duplicate_dashboard(a, b)

SpecCalls == Init /\ [][NextCalls]_vars

\* Dashboards and the export / import of the store
NextImport ==
    \/ \E name \in DashNames : create_dashboard(name)
    \/ \E name \in DashNames, cfg \in OneConfig : add_chart_to_dashboard(name, cfg)
    \/ \E name \in DashNames, cfg \in OneConfig : \E c \in ChartIdInputs(name) :
            update_chart_config(name, c, cfg)
    \/ \E a \in DashNames, b \in DashNames : duplicate_dashboard(a, b)
    \/ \E file \in FileNames : import_dashboard_state(file)

SpecImport == Init /\ [][NextImport]_vars

CustomMetadata == {EmptyDict, [k \in {"owner"} |-> "me"]}
TtlMinutes == {0, 1}

IntFrames == {Ints1, Ints2}

\* Data sources and the cache, with the clock running
NextCache ==
    \/ Tick
    \/ \E name \in SrcNames, df \in IntFrames : add_data_source(name, df, EmptyDict)
    \/ \E name \in SrcNames : remove_data_source(name)
    \/ \E name \in SrcNames, df \in IntFrames, preserve \in BOOLEAN :
            update_data_source(name, df, preserve)
    \/ \E name \in DOMAIN data_sources, ttl \in TtlMinutes, t \in 0..MaxClock :
            cache_processed_data(CacheKey(name), data_sources[name], ttl, t)
    \/ \E key \in CacheKeys : get_cached_data(key)

SpecCache == Init /\ [][NextCache]_vars

\* Data sources, their metadata and the export / import of the sources
NextData ==
    \/ \E name \in SrcNames, df \in DataFrames, metadata \in CustomMetadata :
            add_data_source(name, df, metadata)
    \/ \E name \in SrcNames : remove_data_source(name)
    \/ \E name \in SrcNames, df \in DataFrames, preserve \in BOOLEAN :
            update_data_source(name, df, preserve)
    \/ \E file \in SourceFileNames : import_data_sources(file)

SpecData == Init /\ [][NextData]_vars

\* a table of one column and no rows
NoRows == DataFrame(0, <<"int64">>, 0, 0)

\* The data source store with tables that may have no rows
NextPaired ==
    \/ \E name \in SrcNames, df \in IntFrames \cup {NoRows} :
            add_data_source(name, df, EmptyDict)
    \/ \E name \in SrcNames : remove_data_source(name)
    \/ \E name \in SrcNames, df \in IntFrames \cup {NoRows}, preserve \in BOOLEAN :
            update_data_source(name, df, preserve)
    \/ \E file \in SourceFileNames : import_data_sources(file)

SpecPaired == Init /\ [][NextPaired]_vars

\* chart configs of any data source
SourceConfigs == {cfg \in ChartConfigs : cfg.title = "t1"}

\* Both stores: data sources and the charts that name them
Next ==
    \/ \E name \in SrcNames : add_data_source(name, Ints1, EmptyDict)
    \/ \E name \in SrcNames : remove_data_source(name)
    \/ \E name \in DOMAIN data_sources :
            cache_processed_data(CacheKey(name), data_sources[name], 1, now)
    \/ \E name \in DashNames : create_dashboard(name)
    \/ \E name \in DashNames, cfg \in SourceConfigs : add_chart_to_dashboard(name, cfg)
    \/ \E name \in DashNames : \E c \in ChartIdInputs(name) :
            remove_chart_from_dashboard(name, c)
    \/ import_dashboard_state("other.json")

Spec == Init /\ [][Next]_vars

\* two tables of six rows with the same shape, dtypes and first five rows, that
\* differ in the sixth row
Long1 == DataFrame(6, <<"int64">>, 1, 0)
Long2 == DataFrame(6, <<"int64">>, 1, 1)

HashFrames == DataFrames \cup {Long1, Long2}

\* Data sources of every kind of table, hashed as they are stored
NextHash ==
    \/ \E name \in SrcNames, df \in HashFrames : add_data_source(name, df, EmptyDict)
    \/ \E name \in SrcNames, df \in HashFrames, preserve \in BOOLEAN :
            update_data_source(name, df, preserve)
    \/ \E name \in SrcNames : remove_data_source(name)

SpecHash == Init /\ [][NextHash]_vars

\* Dashboards and the current-dashboard pointer
NextSelect ==
    \/ \E name \in DashNames : create_dashboard(name)
    \/ \E name \in DashNames : select_dashboard(name)
    \/ \E name \in DashNames, cfg \in OneConfig : add_chart_to_dashboard(name, cfg)
    \/ \E name \in DashNames : delete_dashboard(name)

SpecSelect == Init /\ [][NextSelect]_vars

\* Charts of the dashboards, added and updated with a new dict or with the dict
\* of the call before
NextCharts ==
    \/ \E name \in DashNames : create_dashboard(name)
    \/ \E name \in DashNames, cfg \in DashConfigs : add_chart_to_dashboard(name, cfg)
    \/ \E name \in DashNames : add_chart_to_dashboard_same_config(name)
    \/ \E name \in DashNames, cfg \in DashConfigs : \E c \in ChartIdInputs(name) :
            update_chart_config(name, c, cfg)
    \/ \E name \in DashNames : \E c \in ChartIdInputs(name) :
            update_chart_config_same_config(name, c)
    \/ \E name \in DashNames : \E c \in ChartIdInputs(name) :
            remove_chart_from_dashboard(name, c)

SpecCharts == Init /\ [][NextCharts]_vars

\* Charts and copies of dashboards, the caller's dict being passed again or not
NextKeys ==
    \/ \E name \in DashNames : create_dashboard(name)
    \/ \E name \in DashNames, cfg \in OneConfig : add_chart_to_dashboard(name, cfg)
    \/ \E name \in DashNames : add_chart_to_dashboard_same_config(name)
    \/ \E name \in DashNames, cfg \in OneConfig : \E c \in ChartIdInputs(name) :
            update_chart_config(name, c, cfg)
    \/ \E name \in DashNames : \E c \in ChartIdInputs(name) :
            update_chart_config_same_config(name, c)
    \/ \E name \in DashNames : \E c \in ChartIdInputs(name) :
            remove_chart_from_dashboard(name, c)
    \/ \E a \in DashNames, b \in DashNames : duplicate_dashboard(a, b)

SpecKeys == Init /\ [][NextKeys]_vars

\* The operations that set, clear or could orphan the current dashboard
NextPointer ==
    \/ Tick
    \/ Sleep
    \/ \E name \in DashNames : select_dashboard(name)
    \/ \E name \in DashNames : create_dashboard(name)
    \/ \E name \in DashNames : delete_dashboard(name)
    \/ \E a \in DashNames, b \in DashNames : duplicate_dashboard(a, b)
    \/ \E file \in FileNames : import_dashboard_state(file)
    \/ cleanup_session_state

SpecPointer == Init /\ [][NextPointer]_vars

\* Dashboards growing old, and the cleanup of the session
NextCleanup ==
    \/ Tick
    \/ Sleep
    \/ \E name \in DashNames : create_dashboard(name)
    \/ \E name \in DashNames, cfg \in OneConfig : add_chart_to_dashboard(name, cfg)
    \/ \E name \in DashNames : \E c \in ChartIdInputs(name) :
            remove_chart_from_dashboard(name, c)
    \/ cleanup_session_state

SpecCleanup == Init /\ [][NextCleanup]_vars

\* The operations that write the history, from a short or a long history
NextHistory ==
    \/ \E name \in DashNames : create_dashboard(name)
    \/ \E name \in DashNames : delete_dashboard(name)
    \/ \E name \in DashNames, cfg \in OneConfig : add_chart_to_dashboard(name, cfg)
    \/ \E name \in DashNames : \E c \in ChartIdInputs(name) :
            remove_chart_from_dashboard(name, c)
    \/ \E a \in DashNames, b \in DashNames : duplicate_dashboard(a, b)
    \/ cleanup_session_state

SpecHistory == InitHistory /\ [][NextHistory]_vars

(***************************************************************************)
(* Properties                                                              *)
(***************************************************************************)
\* the dashboards that hold a chart whose data_source is name
Referencing(name) ==
    {d \in DOMAIN dashboards :
        \E c \in DOMAIN dashboards[d].charts :
            dashboards[d].charts[c].data_source = name}

\* C1: remove_data_source on a stored name that some chart references fails,
\* leaves the table, the metadata and the cache as they were, and names exactly
\* the referencing dashboards, each once; on a stored name no chart references
\* it succeeds and deletes the table and the metadata.
C1_DependencySafeRemove ==
    [][\A name \in SrcNames :
         (remove_data_source(name) /\ name \in DOMAIN data_sources)
         => IF Referencing(name) # {}
            THEN /\ ~result'.ok
                 /\ UNCHANGED <<data_sources, data_metadata, data_cache>>
                 /\ Range(result'.names) = Referencing(name)
                 /\ Len(result'.names) = Cardinality(Referencing(name))
            ELSE /\ result'.ok
                 /\ name \notin DOMAIN data_sources'
                 /\ name \notin DOMAIN data_metadata']_vars

\* a removal was refused because two dashboards reference the stored source,
\* with a cache entry of that source in place
C1_Witness ==
    /\ result.op = "remove_data_source"
    /\ ~result.ok
    /\ result.name \in DOMAIN data_sources
    /\ Len(result.names) = 2
    /\ CacheKey(result.name) \in DOMAIN data_cache

\* C2: every chart of every dashboard names a data source that is stored.
C2_NoDanglingChartReference ==
    \A d \in DOMAIN dashboards :
        \A c \in DOMAIN dashboards[d].charts :
            dashboards[d].charts[c].data_source \in DOMAIN data_sources

\* C3: after a successful remove_chart_from_dashboard the dashboard's layout
\* holds no entry for the removed chart id.
C3_RemovedChartLeavesLayout ==
    (result.op = "remove_chart_from_dashboard" /\ result.ok
        /\ result.name \in DOMAIN dashboards)
    => result.chart \notin LayoutChartIds(dashboards[result.name].layout)

\* C4: importing the text export_dashboard_state returns, into the store it was
\* exported from or into an empty store, gives a dashboards map equal to the one
\* exported: same names, dashboard ids, chart ids and chart contents.
C4_ExportImportRoundTrip ==
    /\ [][import_dashboard_state("export")
            => (result'.ok /\ dashboards' = dashboards
                /\ result'.count = Cardinality(DOMAIN dashboards))]_vars
    /\ [](LET state_data == export_dashboard_state
          IN  /\ state_data.valid_json
              /\ state_data.has_dashboards
              /\ state_data.dashboards_is_dict
              /\ ImportDashboards(EmptyDict, state_data.dashboards) = dashboards)

\* the store's own export was imported while it held a chart that had been
\* updated
C4_Witness ==
    /\ result.op = "import_dashboard_state"
    /\ result.name = "export"
    /\ result.ok
    /\ \E d \in DOMAIN dashboards :
        \E c \in DOMAIN dashboards[d].charts :
            dashboards[d].charts[c].modified # NoneValue

\* C5: an import_dashboard_state call that returns a failure leaves the
\* dashboards map and the user preferences as they were.
C5_FailedImportChangesNothing ==
    [][((\E file \in FileNames : import_dashboard_state(file)) /\ ~result'.ok)
         => UNCHANGED <<dashboards, user_preferences>>]_vars

\* a chart without its id and creation timestamp
ChartContent(chart) ==
    [modified |-> chart.modified, data_source |-> chart.data_source,
     title |-> chart.title]

\* the charts of copy are those of source, one for one, up to id and created
SameCharts(source, copy) ==
    \E f \in [DOMAIN source.charts -> DOMAIN copy.charts] :
        /\ \A c1, c2 \in DOMAIN source.charts : f[c1] = f[c2] => c1 = c2
        /\ {f[c] : c \in DOMAIN source.charts} = DOMAIN copy.charts
        /\ \A c \in DOMAIN source.charts :
              ChartContent(copy.charts[f[c]]) = ChartContent(source.charts[c])

\* C6: after a successful duplicate_dashboard the copy's id differs from every
\* other dashboard's id, its chart ids are disjoint from those of every other
\* dashboard, it has the source's charts one for one up to id and creation
\* timestamp, and the source (with every other dashboard) is unchanged.
C6_DuplicateIsFresh ==
    [][\A a \in DashNames, b \in DashNames :
         (duplicate_dashboard(a, b) /\ result'.ok)
         => /\ b \in DOMAIN dashboards'
            /\ b \notin DOMAIN dashboards
            /\ \A d \in DOMAIN dashboards :
                  /\ dashboards'[d] = dashboards[d]
                  /\ dashboards'[d].id # dashboards'[b].id
                  /\ DOMAIN dashboards'[d].charts \cap DOMAIN dashboards'[b].charts = {}
            /\ Cardinality(DOMAIN dashboards'[b].charts)
                  = Cardinality(DOMAIN dashboards[a].charts)
            /\ SameCharts(dashboards[a], dashboards'[b])]_vars

\* a dashboard holding two charts was duplicated
C6_Witness ==
    /\ result.op = "duplicate_dashboard"
    /\ result.ok
    /\ result.name2 \in DOMAIN dashboards
    /\ Cardinality(DOMAIN dashboards[result.name2].charts) = 2

\* C7: the copy made from a dashboard with a saved grid layout has every chart
\* id of its layout among its own charts, and none of the source's chart ids.
C7_DuplicateKeepsLayoutInvariant ==
    (result.op = "duplicate_dashboard" /\ result.ok
        /\ result.name \in DOMAIN dashboards /\ result.name2 \in DOMAIN dashboards
        /\ dashboards[result.name].layout.kind = "grid")
    => /\ LayoutChartIds(dashboards[result.name2].layout)
            \subseteq DOMAIN dashboards[result.name2].charts
       /\ LayoutChartIds(dashboards[result.name2].layout)
            \cap DOMAIN dashboards[result.name].charts = {}

\* C8: after add_data_source over a stored name, update_data_source or
\* remove_data_source, no cache entry keyed to that name remains.
C8_NoStaleCacheAfterTableChange ==
    [][\A name \in SrcNames :
         (/\ \/ \E df \in IntFrames : add_data_source(name, df, EmptyDict)
             \/ \E df \in IntFrames, preserve \in BOOLEAN :
                    update_data_source(name, df, preserve)
             \/ remove_data_source(name)
          /\ result'.ok
          /\ name \in DOMAIN data_sources)
         => CacheKey(name) \notin DOMAIN data_cache']_vars

\* C9: the first get_cached_data(key) after cache_processed_data(key, data, 0)
\* finds no entry, however little the clock has moved in between.
C9_ZeroTtlAbsentOnNextGet ==
    [][(result.op = "cache_processed_data" /\ result.count = 0
          /\ get_cached_data(result.key))
         => ~result'.hit]_vars

\* C10: for every stored name the hash in the metadata is the hash of the table
\* stored under that name.
C10_StoredHashIsCurrent ==
    \A name \in DOMAIN data_sources : check_data_integrity(name)

\* C11: two stored tables have the same hash exactly when they are the same
\* table: the hash of a table is one value, and tables that differ in a cell, a
\* column or the shape (the rows after the fifth included) have different hashes.
C11_HashSensitivity ==
    \A a \in DOMAIN data_sources, b \in DOMAIN data_sources :
        (generate_data_hash(data_sources[a]) = generate_data_hash(data_sources[b]))
            <=> (data_sources[a] = data_sources[b])

\* the history after one entry for (dashboard_name, action) was appended to h
OneMoreEntry(h, h2, dashboard_name, action) ==
    /\ Len(h2) = Len(h) + 1
    /\ SubSeq(h2, 1, Len(h)) = h
    /\ h2[Len(h2)].dashboard = dashboard_name
    /\ h2[Len(h2)].action = action

\* C12: create_dashboard on a name that is a dashboard fails and changes no
\* dashboard; on a new name it adds exactly that dashboard, with no charts and
\* no filters, and appends exactly one 'created' history entry for the name.
C12_CreateDashboard ==
    [][\A name \in DashNames :
         create_dashboard(name)
         => IF name \in DOMAIN dashboards
            THEN /\ ~result'.ok
                 /\ UNCHANGED <<dashboards, dashboard_history>>
            ELSE /\ result'.ok
                 /\ DOMAIN dashboards' = DOMAIN dashboards \cup {name}
                 /\ \A d \in DOMAIN dashboards : dashboards'[d] = dashboards[d]
                 /\ dashboards'[name].charts = EmptyDict
                 /\ dashboards'[name].filters = EmptyDict
                 /\ OneMoreEntry(dashboard_history, dashboard_history',
                                 name, "created")]_vars

\* create_dashboard was refused for a dashboard that holds a chart
C12_Witness ==
    /\ result.op = "create_dashboard"
    /\ ~result.ok
    /\ result.name \in DOMAIN dashboards
    /\ DOMAIN dashboards[result.name].charts # {}

\* C13: delete_dashboard on an absent name fails and changes nothing; otherwise
\* it removes exactly that dashboard, leaves every other dashboard as it was,
\* sets the current dashboard to none exactly when it named the deleted one,
\* and appends one 'deleted' history entry.
C13_DeleteDashboard ==
    [][\A name \in DashNames :
         delete_dashboard(name)
         => IF name \notin DOMAIN dashboards
            THEN /\ ~result'.ok
                 /\ UNCHANGED <<dashboards, current_dashboard, dashboard_history>>
            ELSE /\ result'.ok
                 /\ DOMAIN dashboards' = DOMAIN dashboards \ {name}
                 /\ \A d \in DOMAIN dashboards' : dashboards'[d] = dashboards[d]
                 /\ (current_dashboard = name) => (current_dashboard' = NoName)
                 /\ (current_dashboard # name) => (current_dashboard' = current_dashboard)
                 /\ OneMoreEntry(dashboard_history, dashboard_history',
                                 name, "deleted")]_vars

\* a dashboard was deleted while the current dashboard was another one, which
\* is still the current dashboard
C13_Witness ==
    /\ result.op = "delete_dashboard"
    /\ result.ok
    /\ current_dashboard \in DOMAIN dashboards
    /\ current_dashboard # result.name

\* every chart-map entry of the store, as <<dashboard name, key>>
ChartEntries ==
    UNION {{<<d, c>> : c \in DOMAIN dashboards[d].charts} : d \in DOMAIN dashboards}

\* the chart ids in the store: the keys of the chart maps and the 'id' of the
\* charts stored under them
ChartIdsInStore ==
    {e[2] : e \in ChartEntries} \cup {dashboards[e[1]].charts[e[2]].id : e \in ChartEntries}

\* C14: no two charts of the store have the same id; a successful add_chart
\* returns an id no chart had before the call and stores the chart under that id;
\* add_chart on an absent dashboard fails and changes no dashboard.
C14_AddChartFreshId ==
    /\ [](\A e1 \in ChartEntries, e2 \in ChartEntries :
            e1 # e2 => dashboards[e1[1]].charts[e1[2]].id
                        # dashboards[e2[1]].charts[e2[2]].id)
    /\ [][\A name \in DashNames :
            (\/ \E cfg \in DashConfigs : add_chart_to_dashboard(name, cfg)
             \/ add_chart_to_dashboard_same_config(name))
            => IF name \notin DOMAIN dashboards
               THEN ~result'.ok /\ UNCHANGED dashboards
               ELSE /\ result'.ok
                    /\ result'.chart \notin ChartIdsInStore
                    /\ result'.chart \in DOMAIN dashboards'[name].charts
                    /\ dashboards'[name].charts[result'.chart].id = result'.chart]_vars

\* what an update of chart chart_id of dashboard name keeps: the chart ids of
\* the dashboard, the id and creation timestamp of the chart, every other chart
\* of the dashboard and every other dashboard
UpdateKeepsTheRest(name, chart_id) ==
    /\ DOMAIN dashboards' = DOMAIN dashboards
    /\ DOMAIN dashboards'[name].charts = DOMAIN dashboards[name].charts
    /\ dashboards'[name].charts[chart_id].id = chart_id
    /\ dashboards'[name].charts[chart_id].created
           = dashboards[name].charts[chart_id].created
    /\ \A c \in DOMAIN dashboards[name].charts \ {chart_id} :
           dashboards'[name].charts[c] = dashboards[name].charts[c]
    /\ \A d \in DOMAIN dashboards \ {name} : dashboards'[d] = dashboards[d]

\* C15: update_chart on an absent dashboard or chart id fails and changes no
\* dashboard; otherwise it stores the new spec under the same chart id with the
\* original creation timestamp, keeps the dashboard's set of chart ids, and
\* changes no other chart and no other dashboard.
C15_UpdateChartKeepsIdentity ==
    [][\A name \in DashNames : \A chart_id \in ChartIdInputs(name) :
         LET found == /\ name \in DOMAIN dashboards
                      /\ chart_id \in DOMAIN dashboards[name].charts
         IN  /\ \A cfg \in DashConfigs :
                    update_chart_config(name, chart_id, cfg)
                    => IF ~found
                       THEN ~result'.ok /\ UNCHANGED dashboards
                       ELSE /\ result'.ok
                            /\ UpdateKeepsTheRest(name, chart_id)
                            /\ dashboards'[name].charts[chart_id].title = cfg.title
                            /\ dashboards'[name].charts[chart_id].data_source
                                   = cfg.data_source
             /\ update_chart_config_same_config(name, chart_id)
                    => IF ~found
                       THEN ~result'.ok /\ UNCHANGED dashboards
                       ELSE /\ result'.ok
                            /\ UpdateKeepsTheRest(name, chart_id)]_vars

\* C16: after a successful import_dashboard_state every dashboard name of the
\* blob maps to the blob's dashboard, every existing dashboard whose name is not
\* in the blob is as it was, no other name appears, and the reported count is
\* the number of dashboards in the blob.
C16_ImportMerges ==
    [][\A file \in FileNames :
         (import_dashboard_state(file) /\ result'.ok)
         => LET items == FileText(file).dashboards
            IN  /\ DOMAIN dashboards' = DOMAIN dashboards \cup DOMAIN items
                /\ \A n \in DOMAIN items : dashboards'[n] = items[n]
                /\ \A d \in DOMAIN dashboards \ DOMAIN items :
                       dashboards'[d] = dashboards[d]
                /\ result'.count = Cardinality(DOMAIN items)]_vars

\* the blob of another session was imported over a dashboard D1 created here,
\* with a dashboard D2 in the store that the blob does not name
C16_Witness ==
    /\ result.op = "import_dashboard_state"
    /\ result.ok
    /\ result.name = "other.json"
    /\ "D2" \in DOMAIN dashboards
    /\ "D1" \in DOMAIN dashboards
    /\ dashboards["D1"].id = -1
    /\ \E i \in 1..Len(dashboard_history) :
           /\ dashboard_history[i].dashboard = "D1"
           /\ dashboard_history[i].action = "created"

\* the dashboards without charts that were created more than the maximum age
\* before the clock reading current_time
OldAndEmpty(current_time) ==
    {name \in DOMAIN dashboards :
        /\ DOMAIN dashboards[name].charts = {}
        /\ current_time - dashboards[name].created.t
               > MaxAgeHours * 60 * TicksPerMinute}

\* C17: cleanup_session_state removes exactly the dashboards that have no chart
\* and are older than the maximum age, leaves the others as they were, and
\* returns the number it removed.
C17_CleanupRemovesOldEmpty ==
    [][cleanup_session_state
         => /\ DOMAIN dashboards' = DOMAIN dashboards \ OldAndEmpty(now)
            /\ \A d \in DOMAIN dashboards' : dashboards'[d] = dashboards[d]
            /\ result'.count = Cardinality(OldAndEmpty(now))]_vars

\* a cleanup removed one dashboard and kept another one that is as old but
\* holds a chart
C17_Witness ==
    /\ result.op = "cleanup_session_state"
    /\ result.count = 1
    /\ \E d \in DOMAIN dashboards :
           /\ DOMAIN dashboards[d].charts # {}
           /\ now - dashboards[d].created.t > MaxAgeHours * 60 * TicksPerMinute

\* h2 is h without some of its oldest entries
Suffix(h2, h) == \E k \in 0..Len(h) : h2 = SubSeq(h, k + 1, Len(h))

\* this step appended one entry for (dashboard_name, action) at the end of the
\* history, dropping at most the oldest entries that no longer fit
AppendedOne(dashboard_name, action) ==
    /\ Len(dashboard_history') =
           IF Len(dashboard_history) < HistoryCap THEN Len(dashboard_history) + 1
           ELSE HistoryCap
    /\ dashboard_history'[Len(dashboard_history')].dashboard = dashboard_name
    /\ dashboard_history'[Len(dashboard_history')].action = action
    /\ Suffix(dashboard_history',
              Append(dashboard_history, dashboard_history'[Len(dashboard_history')]))

\* C18: the history never holds more than 100 entries; each successful create,
\* delete, add_chart, remove_chart and duplicate appends exactly one entry at
\* the end with its own tag and dashboard name; every step leaves the history
\* as it was, or appends one entry, or drops entries from the oldest end only.
C18_HistoryBoundedAppendOnly ==
    /\ [](Len(dashboard_history) <= HistoryCap)
    /\ [][/\ \A name \in DashNames :
               /\ (create_dashboard(name) /\ result'.ok)
                      => AppendedOne(name, "created")
               /\ (delete_dashboard(name) /\ result'.ok)
                      => AppendedOne(name, "deleted")
               /\ ((\E cfg \in OneConfig : add_chart_to_dashboard(name, cfg))
                     /\ result'.ok)
                      => AppendedOne(name, "chart_added")
               /\ ((\E c \in ChartIdInputs(name) :
                        remove_chart_from_dashboard(name, c)) /\ result'.ok)
                      => AppendedOne(name, "chart_removed")
               /\ ((\E a \in DashNames : duplicate_dashboard(a, name))
                     /\ result'.ok)
                      => AppendedOne(name, "duplicated")
           /\ \/ Suffix(dashboard_history', dashboard_history)
              \/ /\ Len(dashboard_history') > 0
                 /\ Suffix(dashboard_history',
                           Append(dashboard_history,
                                  dashboard_history'[Len(dashboard_history')]))]_vars

\* the history is full, holds three entries of this run, and so has lost its
\* oldest entries
C18_Witness ==
    /\ Len(dashboard_history) = HistoryCap
    /\ Cardinality(AppendedEntries) >= 3
    /\ dashboard_history[1].timestamp.t < 0

(***************************************************************************)
(* ChartBuilder                                                            *)
(***************************************************************************)
MaxRows == 2
\* processed_df.sample(5000)
SampleSize == 5000

\* a column's dtype: its name and, for a categorical, its categories
ObjectDtype == [name |-> "object", categories |-> {}]
Int64Dtype == [name |-> "int64", categories |-> {}]
CategoricalDtype(categories) == [name |-> "category", categories |-> categories]

\* the tables charted here have the columns x, c and y, in this order
Columns == <<"x", "c", "y">>
ChartFrame(x_dtype, c_dtype, records) ==
    DataFrame(Len(records), <<x_dtype, c_dtype, Int64Dtype>>,
              SubSeq(records, 1, IF Len(records) < 5 THEN Len(records) ELSE 5),
              SubSeq(records, 6, Len(records)))

Records(df) == df.head \o df.rest
Dtype(df, col) == df.dtypes[CHOOSE i \in DOMAIN Columns : Columns[i] = col]
ColumnValues(df, col) == {Records(df)[i][col] : i \in DOMAIN Records(df)}

\* the order pandas sorts text values in
StringOrder == <<"N", "S", "a", "b">>
Rank(df, col, v) ==
    IF Dtype(df, col).name = "int64"
    THEN v
    ELSE CHOOSE i \in DOMAIN StringOrder : StringOrder[i] = v

\* the levels groupby takes from one key: all categories of a categorical unless
\* observed, else the values present
Levels(df, col, observed) ==
    IF Dtype(df, col).name = "category" /\ ~observed
    THEN Dtype(df, col).categories
    ELSE ColumnValues(df, col)

\* the groups of df.groupby(by): the key combinations present in the rows, or
\* with a categorical key and observed=False the product of the keys' levels
GroupKeys(df, by, observed) ==
    IF ~observed /\ \E col \in Range(by) : Dtype(df, col).name = "category"
    THEN {key \in [Range(by) -> UNION {Levels(df, col, observed) : col \in Range(by)}] :
              \A col \in Range(by) : key[col] \in Levels(df, col, observed)}
    ELSE {[col \in Range(by) |-> Records(df)[i][col]] : i \in DOMAIN Records(df)}

RECURSIVE GroupSum(_, _, _)
\* [y_col].sum() of one group: 0 for a group without rows
GroupSum(records, key, y_col) ==
    IF records = <<>>
    THEN 0
    ELSE (IF \A col \in DOMAIN key : Head(records)[col] = key[col]
          THEN Head(records)[y_col] ELSE 0)
         + GroupSum(Tail(records), key, y_col)

\* groupby sorts its groups by key, the first key first
KeyLess(df, by, k1, k2) ==
    \E i \in DOMAIN by :
        /\ \A j \in 1..(i - 1) : k1[by[j]] = k2[by[j]]
        /\ Rank(df, by[i], k1[by[i]]) < Rank(df, by[i], k2[by[i]])

SortedKeys(df, by, keys) ==
    [i \in 1..Cardinality(keys) |->
        CHOOSE key \in keys :
            Cardinality({k \in keys : KeyLess(df, by, k, key)}) = i - 1]

\* df.groupby(by)[y_col].sum().reset_index(): one row per group, holding the key
\* columns and the sum
GroupBySum(df, by, y_col, observed) ==
    LET keys == SortedKeys(df, by, GroupKeys(df, by, observed))
    IN  [i \in DOMAIN keys |->
            [col \in Range(by) \cup {y_col} |->
                IF col = y_col THEN GroupSum(Records(df), keys[i], y_col)
                ELSE keys[i][col]]]

\* sort_values(x_col): the rows in ascending order of x, rows of equal x in any
\* order
SortValues(df, records, x_col) ==
    {s \in [DOMAIN records -> Range(records)] :
        /\ \A r \in Range(records) :
               Cardinality({i \in DOMAIN s : s[i] = r})
                   = Cardinality({i \in DOMAIN records : records[i] = r})
        /\ \A i \in 1..(Len(s) - 1) :
               Rank(df, x_col, s[i][x_col]) <= Rank(df, x_col, s[i + 1][x_col])}

\* sample(SampleSize): SampleSize rows of the table, each taken once, in any order
Sample(records) ==
    {s \in [1..SampleSize -> Range(records)] :
        \A r \in Range(records) :
            Cardinality({i \in DOMAIN s : s[i] = r})
                <= Cardinality({i \in DOMAIN records : records[i] = r})}

Processed(records) == [ok |-> TRUE, rows |-> records]
\* the except clause: st.error and return None
ProcessingFailed == [ok |-> FALSE, rows |-> <<>>]
HasColumn(col) == col \in Range(Columns)

\* a pie that always groups by x_col
PieGroupBy_x_first(config) == <<config.x_column>>

\* the key of the pie branch: color_col if given, else x_col
PieGroupBy(config) ==
    IF config.color_column # NoName
    THEN <<config.color_column>>
    ELSE <<config.x_column>>

\* process_data_for_chart(df, config): the tables it can return. The default of
\* groupby's observed depends on the pandas the program runs on (False before
\* pandas 3, True from it on), so both outcomes are possible.
process_data_for_chart(df, config) ==
    LET x_col == config.x_column
        y_col == config.y_column
        color_col == config.color_column
        chart_type == config.chart_type
        grouped(by) ==
            IF \A col \in Range(by) \cup {y_col} : HasColumn(col)
            THEN {Processed(GroupBySum(df, by, y_col, observed)) :
                      observed \in BOOLEAN}
            ELSE {ProcessingFailed}
    IN  IF chart_type = "histogram"
        THEN {Processed(Records(df))}
        ELSE IF chart_type = "pie"
        THEN grouped(PieGroupBy(config))
        ELSE IF chart_type \in {"bar", "line", "area"}
        THEN IF ~HasColumn(x_col)
             THEN {ProcessingFailed}
             ELSE IF Dtype(df, x_col).name \in {"object", "category"}
             THEN IF color_col # NoName
                  THEN grouped(<<x_col, color_col>>)
                  ELSE grouped(<<x_col>>)
             ELSE IF Dtype(df, x_col).name \in {"int64", "float64", "datetime64[ns]"}
             THEN {Processed(s) : s \in SortValues(df, Records(df), x_col)}
             ELSE {Processed(Records(df))}
        ELSE IF Len(Records(df)) > SampleSize
        THEN {Processed(s) : s \in Sample(Records(df))}
        ELSE {Processed(Records(df))}

\* render_chart_preview(config, data_sources): the table handed to create_chart
render_chart_preview(config) ==
    /\ IF config.data_source \notin DOMAIN data_sources
       THEN result' = Return("render_chart_preview", FALSE, config.data_source)
       ELSE \E processed_df \in
                    process_data_for_chart(data_sources[config.data_source], config) :
                result' = [Return("render_chart_preview", processed_df.ok,
                                  config.data_source)
                              EXCEPT !.data = processed_df.rows]
    /\ UNCHANGED <<dashVars, dataVars, grid_layout, now, next_uuid>>

XValues == {"a", "b"}
CValues == {"N", "S"}
YValues == {1, 2}
Rows == [x : XValues, c : CValues, y : YValues]
RowSeqs(rows) == UNION {[1..n -> rows] : n \in 0..MaxRows}

\* the tables of the two aggregation examples
BarExample ==
    <<[x |-> "a", c |-> "N", y |-> 10], [x |-> "a", c |-> "N", y |-> 5],
      [x |-> "b", c |-> "N", y |-> 3]>>
PieExample ==
    <<[x |-> "a", c |-> "N", y |-> 4], [x |-> "a", c |-> "S", y |-> 6],
      [x |-> "b", c |-> "N", y |-> 1]>>

\* a text column as read_csv leaves it (object) or as the cleaner's optimize
\* step and the import leave it: astype('category'), whose categories are the
\* values of the column
TextDtypes(records, col) ==
    {ObjectDtype, CategoricalDtype({records[i][col] : i \in DOMAIN records})}

TextFrames ==
    {ChartFrame(dt[1], dt[2], dt[3]) :
        dt \in UNION {TextDtypes(records, "x") \X TextDtypes(records, "c") \X {records} :
                         records \in RowSeqs(Rows) \cup {BarExample, PieExample}}}

\* tables with a numeric x column
NumericFrames ==
    {ChartFrame(Int64Dtype, ObjectDtype, records) :
        records \in RowSeqs([x : {1, 2}, c : {"N"}, y : {3}])}

ChartFrames == TextFrames \cup NumericFrames

ChartTypes == {"histogram", "pie", "bar", "line", "area", "scatter", "box"}
PreviewConfigs ==
    [chart_type : ChartTypes, data_source : {"s", "s2"}, x_column : {"x"},
     y_column : {"y"}, color_column : {"c", NoName}]

\* a session in which one table was added as "s" before the explored run
InitChart ==
    /\ dashboards = EmptyDict
    /\ current_dashboard = NoName
    /\ dashboard_history = <<>>
    /\ user_preferences = DefaultPreferences
    /\ now = 0
    /\ \E df \in ChartFrames :
           /\ data_sources = DictPut(EmptyDict, "s", df)
           /\ data_metadata = DictPut(EmptyDict, "s", NewMetadata("s", df, EmptyDict))
    /\ data_cache = EmptyDict
    /\ grid_layout = EmptyDict
    /\ next_uuid = 0
    /\ result = NoResult

\* a table of one row more than sample keeps, every row the same
LargeFrames ==
    {ChartFrame(Int64Dtype, ObjectDtype,
                [i \in 1..(SampleSize + 1) |-> [x |-> 1, c |-> "N", y |-> 3]])}

\* previews that name columns of the table and do not draw a pie
PassThroughConfigs == {config \in PreviewConfigs : config.chart_type # "pie"}

InitSample ==
    /\ dashboards = EmptyDict
    /\ current_dashboard = NoName
    /\ dashboard_history = <<>>
    /\ user_preferences = DefaultPreferences
    /\ now = 0
    /\ \E df \in ChartFrames \cup LargeFrames :
           /\ data_sources = DictPut(EmptyDict, "s", df)
           /\ data_metadata = DictPut(EmptyDict, "s", NewMetadata("s", df, EmptyDict))
    /\ data_cache = EmptyDict
    /\ grid_layout = EmptyDict
    /\ next_uuid = 0
    /\ result = NoResult

NextSample == \E config \in PassThroughConfigs : render_chart_preview(config)

SpecSample == InitSample /\ [][NextSample]_vars

\* previews that may name a column, "z", the table does not have
ColumnConfigs ==
    [chart_type : ChartTypes, data_source : {"s"}, x_column : {"x", "z"},
     y_column : {"y", "z"}, color_column : {"c", "z", NoName}]

NextColumns == \E config \in ColumnConfigs : render_chart_preview(config)

SpecColumns == InitChart /\ [][NextColumns]_vars

NextChart == \E config \in PreviewConfigs : render_chart_preview(config)

SpecChart == InitChart /\ [][NextChart]_vars

RECURSIVE SumY(_, _, _)
\* the sum of y_col over the rows at the given positions
SumY(records, positions, y_col) ==
    IF positions = {}
    THEN 0
    ELSE LET i == CHOOSE p \in positions : TRUE
         IN  records[i][y_col] + SumY(records, positions \ {i}, y_col)

\* rows holds exactly one row per combination of the by columns present in the
\* table, made of the by columns and the sum of y_col over the combination's rows
OneRowPerGroup(df, by, y_col, rows) ==
    LET records == Records(df)
        group(r) == {i \in DOMAIN records : \A col \in by : records[i][col] = r[col]}
    IN  /\ \A i \in DOMAIN rows :
               /\ DOMAIN rows[i] = by \cup {y_col}
               /\ group(rows[i]) # {}
               /\ rows[i][y_col] = SumY(records, group(rows[i]), y_col)
        /\ \A i \in DOMAIN records : \E j \in DOMAIN rows : i \in group(rows[j])
        /\ \A i, j \in DOMAIN rows :
               i # j => \E col \in by : rows[i][col] # rows[j][col]

\* C19: a bar, line or area preview of a table whose x column is text or
\* categorical returns exactly one row per distinct x value, or per distinct
\* (x, grouping) pair when a grouping column is given, and the row's y is the
\* sum of y over the rows of the group; (a,10),(a,5),(b,3) gives (a,15),(b,3).
C19_BarLineAreaAggregation ==
    [][\A config \in PreviewConfigs :
           (/\ config.data_source \in DOMAIN data_sources
            /\ config.chart_type \in {"bar", "line", "area"}
            /\ Dtype(data_sources[config.data_source], config.x_column).name
                   \in {"object", "category"}
            /\ render_chart_preview(config))
           => LET df == data_sources[config.data_source]
                  by == IF config.color_column # NoName
                        THEN {config.x_column, config.color_column}
                        ELSE {config.x_column}
              IN  /\ result'.ok
                  /\ OneRowPerGroup(df, by, config.y_column, result'.data)
                  /\ (Records(df) = BarExample /\ config.color_column = NoName)
                         => result'.data = <<[x |-> "a", y |-> 15],
                                             [x |-> "b", y |-> 3]>>]_vars

\* C20: a pie preview returns exactly one row per distinct value of the grouping
\* column when one is given, else of the x column, and the row's y is the sum of
\* y over the rows of the group; with a grouping column the x column plays no
\* part.
C20_PieAggregation ==
    [][\A config \in PreviewConfigs :
           (/\ config.data_source \in DOMAIN data_sources
            /\ config.chart_type = "pie"
            /\ render_chart_preview(config))
           => LET df == data_sources[config.data_source]
                  by == IF config.color_column # NoName
                        THEN {config.color_column}
                        ELSE {config.x_column}
              IN  /\ result'.ok
                  /\ OneRowPerGroup(df, by, config.y_column, result'.data)
                  /\ (/\ Dtype(df, "x").name # "int64"
                      /\ Records(df) = PieExample
                      /\ config.color_column = "c")
                         => result'.data = <<[c |-> "N", y |-> 5],
                                             [c |-> "S", y |-> 6]>>]_vars

\* the pie of the example table grouped by its c column was previewed: the two
\* rows of category "a" went to different groups
C20_Witness ==
    /\ result.op = "render_chart_preview"
    /\ result.ok
    /\ Dtype(data_sources["s"], "x").name # "int64"
    /\ Records(data_sources["s"]) = PieExample
    /\ result.data = <<[c |-> "N", y |-> 5], [c |-> "S", y |-> 6]>>

\* how many rows of records equal r
Count(records, r) == Cardinality({i \in DOMAIN records : records[i] = r})

\* the preview does not aggregate: scatter and box, and bar, line and area over
\* a numeric or datetime x column
NotAggregated(df, config) ==
    \/ config.chart_type \in {"scatter", "box"}
    \/ /\ config.chart_type \in {"bar", "line", "area"}
       /\ Dtype(df, config.x_column).name \in {"int64", "float64", "datetime64[ns]"}

\* C21: a preview that does not aggregate returns at most 5000 rows: exactly the
\* rows of a table of at most 5000 rows, and exactly 5000 distinct rows of a
\* larger one.
C21_RowCap ==
    [][\A config \in PassThroughConfigs :
           (/\ config.data_source \in DOMAIN data_sources
            /\ NotAggregated(data_sources[config.data_source], config)
            /\ render_chart_preview(config))
           => LET records == Records(data_sources[config.data_source])
                  rows == result'.data
              IN  /\ result'.ok
                  /\ Len(rows) <= SampleSize
                  /\ Len(records) <= SampleSize
                         => \A r \in Range(records) \cup Range(rows) :
                                Count(rows, r) = Count(records, r)
                  /\ Len(records) > SampleSize
                         => /\ Len(rows) = SampleSize
                            /\ \A r \in Range(rows) :
                                   Count(rows, r) <= Count(records, r)]_vars

\* the columns a preview names
NamedColumns(config) ==
    {config.x_column, config.y_column, config.color_column} \ {NoName}

\* C22: whatever the chart kind, a preview that names an x, y or grouping column
\* the table does not have gets a failure and no table.
C22_ColumnNotFound ==
    [][\A config \in ColumnConfigs :
           (/\ config.data_source \in DOMAIN data_sources
            /\ \E col \in NamedColumns(config) : ~HasColumn(col)
            /\ render_chart_preview(config))
           => ~result'.ok]_vars

(***************************************************************************)
(* DataProcessor: type detection and the data profile                      *)
(***************************************************************************)
\* a missing value (NaN / None) of a text column
NullValue == "<NaN>"
\* text that one of date_patterns matches, and text pd.to_numeric accepts
DateLike == {"2024-01-05"}
NumericText == {"7"}
ProfileValues == {"a", "2024-01-05", "7", NullValue}
\* the order pandas sorts these text values in
ProfileOrder == <<"2024-01-05", "7", "N", "a">>

\* an exception that leaves the call instead of a return value
Raised(exception) == [kind |-> exception, t |-> 0]

\* tables with the text columns x and c and the numeric column y; x may hold
\* missing values
ProfileFrames ==
    {ChartFrame(ObjectDtype, ObjectDtype, records) :
        records \in RowSeqs([x : ProfileValues, c : {"N"}, y : {0, 3}])}

\* df[col].dropna().head(100): the first hundred values that are not missing
RECURSIVE DropNa(_, _)
DropNa(records, col) ==
    IF records = <<>>
    THEN <<>>
    ELSE IF Head(records)[col] = NullValue
    THEN DropNa(Tail(records), col)
    ELSE <<Head(records)[col]>> \o DropNa(Tail(records), col)

SampleValues(df, col) ==
    LET values == DropNa(Records(df), col)
    IN  SubSeq(values, 1, IF Len(values) < 100 THEN Len(values) ELSE 100)

\* the body of detect_data_types' loop for one column: the suggested dtype, or
\* ZeroDivisionError from date_like_count / len(sample_values)
SuggestedType(df, col) ==
    LET current_type == Dtype(df, col).name
        sample_values == SampleValues(df, col)
        date_like_count ==
            Cardinality({i \in DOMAIN sample_values : sample_values[i] \in DateLike})
    IN  IF current_type # "object"
        THEN current_type
        ELSE IF Len(sample_values) = 0
        THEN "ZeroDivisionError"
        ELSE IF \A i \in DOMAIN sample_values : sample_values[i] \in NumericText
        THEN "float64"
        ELSE IF date_like_count * 10 > 7 * Len(sample_values)
        THEN "datetime64[ns]"
        ELSE current_type

\* detect_data_types(df): the suggestions, unless a column raises
detect_data_types(name) ==
    /\ name \in DOMAIN data_sources
    /\ LET df == data_sources[name]
           raising == {col \in Range(Columns) :
                          SuggestedType(df, col) = "ZeroDivisionError"}
           changed == {col \in Range(Columns) :
                          SuggestedType(df, col) # Dtype(df, col).name}
       IN  result' =
               IF raising # {}
               THEN [Return("detect_data_types", FALSE, name)
                        EXCEPT !.data = Raised("ZeroDivisionError")]
               ELSE [Return("detect_data_types", TRUE, name)
                        EXCEPT !.data = [col \in changed |-> SuggestedType(df, col)]]
    /\ UNCHANGED <<dashVars, dataVars, grid_layout, now, next_uuid>>

\* value_counts(): how often each value that is not missing occurs
ValueCounts(df, col) ==
    [v \in ColumnValues(df, col) \ {NullValue} |->
        Cardinality({i \in DOMAIN Records(df) : Records(df)[i][col] = v})]

\* mode().iloc[0]: the most frequent value, the first in sort order among equals
MostFrequent(df, col) ==
    LET counts == ValueCounts(df, col)
        rank(v) == CHOOSE i \in DOMAIN ProfileOrder : ProfileOrder[i] = v
    IN  CHOOSE v \in DOMAIN counts :
            \A w \in DOMAIN counts :
                \/ counts[w] < counts[v]
                \/ counts[w] = counts[v] /\ rank(v) <= rank(w)

NaN == -1

\* col_info of a text column, or IndexError from value_counts().iloc[0] of a
\* column that has rows but no value
TextInfo(df, col) ==
    LET counts == ValueCounts(df, col)
        null_count == Cardinality({i \in DOMAIN Records(df) :
                                      Records(df)[i][col] = NullValue})
    IN  IF df.rows # 0 /\ DOMAIN counts = {}
        THEN Raised("IndexError")
        ELSE [kind |-> "text",
              t |-> 0,
              dtype |-> Dtype(df, col).name,
              non_null_count |-> df.rows - null_count,
              null_count |-> null_count,
              \* numpy divides by zero without raising: nan
              null_percentage |-> IF df.rows = 0 THEN NaN
                                  ELSE (null_count * 100) \div df.rows,
              unique_values |-> Cardinality(DOMAIN counts),
              most_frequent |-> IF DOMAIN counts = {} THEN NullValue
                                ELSE MostFrequent(df, col),
              frequency_of_most |-> IF df.rows = 0 THEN 0
                                    ELSE counts[MostFrequent(df, col)]]

\* col_info of a numeric column without missing values; min and max of no
\* values are nan (mean, median and std are floating point and left out)
NumericInfo(df, col) ==
    LET values == ColumnValues(df, col)
    IN  [kind |-> "numeric",
         t |-> 0,
         dtype |-> Dtype(df, col).name,
         non_null_count |-> df.rows,
         null_count |-> 0,
         null_percentage |-> IF df.rows = 0 THEN NaN ELSE 0,
         min |-> IF values = {} THEN NaN
                 ELSE CHOOSE v \in values : \A w \in values : v <= w,
         max |-> IF values = {} THEN NaN
                 ELSE CHOOSE v \in values : \A w \in values : w <= v,
         zeros |-> Cardinality({i \in DOMAIN Records(df) : Records(df)[i][col] = 0})]

ColumnInfo(df, col) ==
    IF Dtype(df, col).name \in {"object", "category"}
    THEN TextInfo(df, col)
    ELSE NumericInfo(df, col)

\* generate_data_profile(df): the profile, unless a column raises
generate_data_profile(name) ==
    /\ name \in DOMAIN data_sources
    /\ LET df == data_sources[name]
           raising == {col \in Range(Columns) :
                          ColumnInfo(df, col).kind = "IndexError"}
       IN  result' =
               IF raising # {}
               THEN [Return("generate_data_profile", FALSE, name)
                        EXCEPT !.data = Raised("IndexError")]
               ELSE [Return("generate_data_profile", TRUE, name)
                        EXCEPT !.data =
                            [basic_info |-> [rows |-> df.rows,
                                             columns |-> Len(df.dtypes)],
                             column_info |->
                                 [col \in Range(Columns) |-> ColumnInfo(df, col)]]]
    /\ UNCHANGED <<dashVars, dataVars, grid_layout, now, next_uuid>>

InitProfile ==
    /\ dashboards = EmptyDict
    /\ current_dashboard = NoName
    /\ dashboard_history = <<>>
    /\ user_preferences = DefaultPreferences
    /\ now = 0
    /\ \E df \in ProfileFrames :
           /\ data_sources = DictPut(EmptyDict, "s", df)
           /\ data_metadata = DictPut(EmptyDict, "s", NewMetadata("s", df, EmptyDict))
    /\ data_cache = EmptyDict
    /\ grid_layout = EmptyDict
    /\ next_uuid = 0
    /\ result = NoResult

NextProfile ==
    \/ \E name \in SrcNames : detect_data_types(name)
    \/ \E name \in SrcNames : generate_data_profile(name)

SpecProfile == InitProfile /\ [][NextProfile]_vars

\* C23: type detection and profile generation return a result for every table,
\* a table without rows and a text column without values included.
C23_ProfilerNeverRaises ==
    [][\A name \in SrcNames :
           (detect_data_types(name) \/ generate_data_profile(name)) => result'.ok]_vars

(***************************************************************************)
(* The cleaner of the data sources page                                    *)
(***************************************************************************)
\* the columns of the uploaded tables, in their order; every value is kept as
\* the text read_csv saw, NullValue for a missing one
UploadColumns == <<"Order Date", "amount">>
UploadDtypes ==
    [col \in Range(UploadColumns) |-> IF col = "amount" THEN "float64" ELSE "object"]
UploadRows ==
    {r \in [Range(UploadColumns) -> {"2024-01-05", "n/a", "7", NullValue}] :
        /\ r["Order Date"] \in {"2024-01-05", "n/a", NullValue}
        /\ r["amount"] \in {"7", NullValue}}
\* the order pandas sorts the text values of these tables in
CleanOrder == <<"0", "2024-01-05", "7", "Unknown", "n/a">>

CleanFrame(dtypes, records) ==
    DataFrame(Len(records), dtypes,
              SubSeq(records, 1, IF Len(records) < 5 THEN Len(records) ELSE 5),
              SubSeq(records, 6, Len(records)))

UploadFrames == {CleanFrame(UploadDtypes, records) : records \in RowSeqs(UploadRows)}

\* col.strip().replace(' ', '_').replace('-', '_').lower(), alphanumerics and
\* underscores kept
CleanName(col) == IF col = "Order Date" THEN "order_date" ELSE col

\* dropna(how='all')
DropEmptyRows(df) ==
    LET keep(r) == \E col \in DOMAIN df.dtypes : r[col] # NullValue
    IN  CleanFrame(df.dtypes, SelectSeq(Records(df), keep))

\* dropna(subset=[col])
DropRowsMissing(df, col) ==
    LET keep(r) == r[col] # NullValue
    IN  CleanFrame(df.dtypes, SelectSeq(Records(df), keep))

\* df[col].fillna(value); filling with a missing value changes nothing
FillNa(df, col, value) ==
    CleanFrame(df.dtypes,
               [i \in DOMAIN Records(df) |->
                   IF Records(df)[i][col] = NullValue
                   THEN [Records(df)[i] EXCEPT ![col] = value]
                   ELSE Records(df)[i]])

PresentValues(df, col) == ColumnValues(df, col) \ {NullValue}

\* mode()[0], or 'Unknown' when the column has no value
ModeOrUnknown(df, col) ==
    LET count(v) == Cardinality({i \in DOMAIN Records(df) : Records(df)[i][col] = v})
        rank(v) == CHOOSE i \in DOMAIN CleanOrder : CleanOrder[i] = v
    IN  IF PresentValues(df, col) = {}
        THEN "Unknown"
        ELSE CHOOSE v \in PresentValues(df, col) :
                 \A w \in PresentValues(df, col) :
                     \/ count(w) < count(v)
                     \/ count(w) = count(v) /\ rank(v) <= rank(w)

\* median() and mean() of a numeric column: nan without values; the numeric
\* columns here hold one number, which is then both
MedianOrMean(df, col) ==
    IF PresentValues(df, col) = {}
    THEN NullValue
    ELSE CHOOSE v \in PresentValues(df, col) : TRUE

\* one round of the fill loop
FillColumn(df, col, missing_strategy, missing_text_strategy) ==
    IF df.dtypes[col] \in {"object", "string"}
    THEN IF missing_text_strategy = "Unknown"
         THEN FillNa(df, col, "Unknown")
         ELSE IF missing_text_strategy = "most_frequent"
         THEN FillNa(df, col, ModeOrUnknown(df, col))
         ELSE IF missing_text_strategy = "drop_rows"
         THEN DropRowsMissing(df, col)
         ELSE df
    ELSE IF missing_strategy \in {"median", "mean"}
         THEN FillNa(df, col, MedianOrMean(df, col))
         ELSE IF missing_strategy = "zero"
         THEN FillNa(df, col, "0")
         ELSE IF missing_strategy = "drop_rows"
         THEN DropRowsMissing(df, col)
         ELSE df

RECURSIVE FillMissing(_, _, _, _)
\* for col in cleaned_df.columns: ...
FillMissing(df, columns, missing_strategy, missing_text_strategy) ==
    IF columns = <<>>
    THEN df
    ELSE FillMissing(FillColumn(df, Head(columns), missing_strategy,
                                missing_text_strategy),
                     Tail(columns), missing_strategy, missing_text_strategy)

RECURSIVE FirstOccurrences(_)
FirstOccurrences(records) ==
    IF records = <<>>
    THEN <<>>
    ELSE LET front == FirstOccurrences(SubSeq(records, 1, Len(records) - 1))
             last == records[Len(records)]
         IN  IF last \in Range(front) THEN front ELSE Append(front, last)

\* drop_duplicates()
DropDuplicates(df) == CleanFrame(df.dtypes, FirstOccurrences(Records(df)))

\* rename(columns=new_columns)
RenameColumns(df) ==
    LET new == {CleanName(col) : col \in DOMAIN df.dtypes}
        old(n) == CHOOSE col \in DOMAIN df.dtypes : CleanName(col) = n
    IN  CleanFrame([n \in new |-> df.dtypes[old(n)]],
                   [i \in DOMAIN Records(df) |->
                       [n \in new |-> Records(df)[i][old(n)]]])

\* pd.to_datetime(errors='coerce') on the date_columns that are columns of the
\* table: what is no date becomes missing
ParseDates(df, date_columns) ==
    LET parsed == Range(date_columns) \cap DOMAIN df.dtypes
    IN  CleanFrame([col \in DOMAIN df.dtypes |->
                       IF col \in parsed THEN "datetime64[ns]" ELSE df.dtypes[col]],
                   [i \in DOMAIN Records(df) |->
                       [col \in DOMAIN df.dtypes |->
                           IF col \in parsed /\ Records(df)[i][col] \notin DateLike
                           THEN NullValue
                           ELSE Records(df)[i][col]]])

\* the dtypes the optimize loop can leave a column with. to_numeric accepts a
\* column of numbers and missing values; astype('int64') raises on a missing
\* value, which sends the column to the categorical test; whether the numeric
\* form of a column without rows equals its int64 form depends on the dtype
\* to_numeric gives it.
OptimizedDtypes(df, col) ==
    LET categorical ==
            IF Cardinality(PresentValues(df, col)) * 10 < df.rows
            THEN {"category"} ELSE {"object"}
    IN  IF df.dtypes[col] # "object"
        THEN {df.dtypes[col]}
        ELSE IF PresentValues(df, col) \subseteq NumericText
        THEN IF df.rows = 0
             THEN {"int64", "float64"}
             ELSE IF NullValue \in ColumnValues(df, col)
             THEN categorical
             ELSE {"int64"}
        ELSE categorical

OptimizeTypes(df) ==
    {[df EXCEPT !.dtypes = dtypes] :
        dtypes \in {d \in [DOMAIN df.dtypes ->
                             {"object", "category", "int64", "float64", "datetime64[ns]"}] :
                       \A col \in DOMAIN df.dtypes : d[col] \in OptimizedDtypes(df, col)}}

\* clean_dataframe(df, options): the tables it can return
clean_dataframe(df, options) ==
    LET no_empty == IF options.remove_empty THEN DropEmptyRows(df) ELSE df
        filled == IF options.fill_missing
                  THEN FillMissing(no_empty, UploadColumns, options.missing_strategy,
                                   options.missing_text_strategy)
                  ELSE no_empty
        unique == IF options.remove_duplicates THEN DropDuplicates(filled) ELSE filled
        renamed == IF options.apply_column_rename THEN RenameColumns(unique) ELSE unique
        dated == IF options.parse_dates /\ options.date_columns # <<>>
                 THEN ParseDates(renamed, options.date_columns)
                 ELSE renamed
    IN  IF options.optimize_types THEN OptimizeTypes(dated) ELSE {dated}

\* the options the page builds from its checkboxes and select boxes
CleaningOptions ==
    [remove_empty : BOOLEAN, fill_missing : {FALSE}, missing_strategy : {"median"},
     missing_text_strategy : {"Unknown"}, remove_duplicates : BOOLEAN,
     apply_column_rename : BOOLEAN, parse_dates : BOOLEAN,
     date_columns : {<<>>, <<"Order Date">>}, optimize_types : BOOLEAN]
    \cup
    [remove_empty : BOOLEAN, fill_missing : {TRUE},
     missing_strategy : {"median", "mean", "zero", "drop_rows"},
     missing_text_strategy : {"Unknown", "most_frequent", "drop_rows"},
     remove_duplicates : BOOLEAN, apply_column_rename : BOOLEAN,
     parse_dates : BOOLEAN, date_columns : {<<>>, <<"Order Date">>},
     optimize_types : BOOLEAN]

\* df = pd.read_csv(uploaded_file)
read_csv(df) ==
    /\ result' = [Return("read_csv", TRUE, NoName) EXCEPT !.data = df]
    /\ UNCHANGED <<dashVars, dataVars, grid_layout, now, next_uuid>>

\* the page cleans the table it has just read
apply_cleaning(options) ==
    /\ result.op = "read_csv"
    /\ \E cleaned_df \in clean_dataframe(result.data, options) :
           result' = [Return("clean_dataframe", TRUE, NoName) EXCEPT !.data = cleaned_df]
    /\ UNCHANGED <<dashVars, dataVars, grid_layout, now, next_uuid>>

NextClean ==
    \/ \E df \in UploadFrames : read_csv(df)
    \/ \E options \in CleaningOptions : apply_cleaning(options)

SpecClean == Init /\ [][NextClean]_vars

\* the cleaning steps in the order they are to apply
CleanerSteps ==
    <<"remove_empty", "fill_missing", "remove_duplicates", "apply_column_rename",
      "parse_dates", "optimize_types">>

\* the tables one step can make of a table: the table itself when the step is
\* not enabled
StepOutcomes(step, df, options) ==
    IF step = "remove_empty" /\ options.remove_empty
    THEN {DropEmptyRows(df)}
    ELSE IF step = "fill_missing" /\ options.fill_missing
    THEN {FillMissing(df, UploadColumns, options.missing_strategy,
                      options.missing_text_strategy)}
    ELSE IF step = "remove_duplicates" /\ options.remove_duplicates
    THEN {DropDuplicates(df)}
    ELSE IF step = "apply_column_rename" /\ options.apply_column_rename
    THEN {RenameColumns(df)}
    ELSE IF step = "parse_dates" /\ options.parse_dates /\ options.date_columns # <<>>
    THEN {ParseDates(df, options.date_columns)}
    ELSE IF step = "optimize_types" /\ options.optimize_types
    THEN OptimizeTypes(df)
    ELSE {df}

RECURSIVE InOrder(_, _, _)
InOrder(steps, frames, options) ==
    IF steps = <<>>
    THEN frames
    ELSE InOrder(Tail(steps),
                 UNION {StepOutcomes(Head(steps), df, options) : df \in frames},
                 options)

\* C24: the cleaner applies its enabled steps in the order remove-empty-rows,
\* fill-missing, remove-duplicates, rename, parse-dates, optimize-types, and with
\* rename and date parsing both enabled every column selected for date parsing
\* by its original name is a datetime column of the output, under its new name.
C24_CleanerStepOrder ==
    [][\A options \in CleaningOptions :
           apply_cleaning(options)
           => /\ result'.data \in InOrder(CleanerSteps, {result.data}, options)
              /\ (options.apply_column_rename /\ options.parse_dates)
                     => \A col \in Range(options.date_columns) :
                            result'.data.dtypes[CleanName(col)] = "datetime64[ns]"]_vars

\* C25: get_cached_data(key) returns the stored data exactly when key has an
\* entry and the clock is not past its expiry; a get of an expired entry returns
\* nothing and removes the entry; after cache_processed_data no entry is left
\* whose expiry is earlier than the time of the call.
C25_CacheExpiryDiscipline ==
    [][/\ \A key \in CacheKeys :
              get_cached_data(key)
              => LET valid == /\ key \in DOMAIN data_cache
                              /\ ~(now > data_cache[key].expiry)
                 IN  /\ result'.hit <=> valid
                     /\ valid => /\ result'.data = data_cache[key].data
                                 /\ data_cache' = data_cache
                     /\ (key \in DOMAIN data_cache /\ ~valid)
                            => data_cache' = DictDel(data_cache, key)
       /\ (\E name \in DOMAIN data_sources, ttl \in TtlMinutes, t \in 0..MaxClock :
               cache_processed_data(CacheKey(name), data_sources[name], ttl, t))
              => \A key \in DOMAIN data_cache' : ~(data_cache'[key].expiry < now)]_vars

\* an entry, the only one in the cache, was read at the very time of its expiry,
\* after the clock had moved since it was stored
C25_Witness ==
    /\ result.op = "get_cached_data"
    /\ result.hit
    /\ result.key \in DOMAIN data_cache
    /\ now = data_cache[result.key].expiry
    /\ now > data_cache[result.key].created
    /\ DOMAIN data_cache = {result.key}

\* a call of one of the six dashboard operations
DashboardCall ==
    \/ \E name \in DashNames : create_dashboard(name)
    \/ \E name \in DashNames : delete_dashboard(name)
    \/ \E name \in DashNames, cfg \in OneConfig : add_chart_to_dashboard(name, cfg)
    \/ \E name \in DashNames : \E c \in ChartIdInputs(name) :
            remove_chart_from_dashboard(name, c)
    \/ \E name \in DashNames, cfg \in OneConfig : \E c \in ChartIdInputs(name) :
            update_chart_config(name, c, cfg)
    \/ \E a \in DashNames, b \in DashNames : duplicate_dashboard(a, b)

\* C26: a create_dashboard, delete_dashboard, add_chart, remove_chart,
\* update_chart or duplicate_dashboard call that returns a failure leaves the
\* dashboards, the current dashboard and the history as they were.
C26_FailedCallChangesNothing ==
    [][(DashboardCall /\ ~result'.ok)
           => UNCHANGED <<dashboards, current_dashboard, dashboard_history>>]_vars

\* remove_chart was refused for a chart id the current dashboard does not hold,
\* while that dashboard holds a chart and the history has entries
C26_Witness ==
    /\ result.op = "remove_chart_from_dashboard"
    /\ ~result.ok
    /\ current_dashboard = result.name
    /\ result.name \in DOMAIN dashboards
    /\ dashboards[result.name].charts # EmptyDict
    /\ Len(dashboard_history) >= 2

\* C27: the names that hold a table are the names that hold a metadata block,
\* and the row and column counts of each block are those of the table stored
\* under its name.
C27_TablesAndMetadataPaired ==
    /\ DOMAIN data_sources = DOMAIN data_metadata
    /\ \A name \in DOMAIN data_sources :
           /\ data_metadata[name].rows = data_sources[name].rows
           /\ data_metadata[name].columns = Len(data_sources[name].dtypes)

\* C28: the 'id' of every stored chart is the key it is stored under, also when
\* the caller passes the same dict to add_chart again.
C28_ChartIdMatchesKey ==
    \A e \in ChartEntries : dashboards[e[1]].charts[e[2]].id = e[2]


\* C29: the current dashboard is either none or the name of a dashboard in the
\* store, whatever selections, creations, deletions, duplications, imports
\* and cleanups have happened.
C29_CurrentDashboardExists ==
    current_dashboard = NoName \/ current_dashboard \in DOMAIN dashboards


\* the cache entries derived from a data source other than name are the same
\* before and after the step
OtherEntriesUnchanged(name) ==
    \A other \in SrcNames \ {name} :
        CacheKey(other) \in DOMAIN data_cache =>
            /\ CacheKey(other) \in DOMAIN data_cache'
            /\ data_cache'[CacheKey(other)] = data_cache[CacheKey(other)]

\* C30: a successful update or removal of data source name leaves unchanged
\* every cache entry derived from a different data source, also one whose
\* name contains name.
C30_InvalidationScoped ==
    [][\A name \in SrcNames :
          /\ (name \in DOMAIN data_sources /\ remove_data_source(name))
                 => OtherEntriesUnchanged(name)
          /\ \A df \in IntFrames, preserve \in BOOLEAN :
                 (name \in DOMAIN data_sources /\ update_data_source(name, df, preserve))
                     => OtherEntriesUnchanged(name)]_vars

====
